---- MODULE Spec2Model ----
(***************************************************************************)
(* A model of the design-pattern demonstrations of the LLD repository.     *)
(* Every demonstration file is a program of its own: its objects are      *)
(* local to one run of that file.  The variable `file` says which file is *)
(* running; the state of the other files stays as constructed.            *)
(***************************************************************************)
EXTENDS Integers, Sequences, FiniteSets, TLC

VARIABLES
    file,            \* the demonstration file that is running
    lastCall,        \* the last public operation called, with its arguments
    trace,           \* what that call did, in order: console lines, stores, callbacks
    thrown,          \* the error that call threw (NoError when it returned normally)
    result,          \* the value that call returned (NULL for void or a throw)
    allocated,       \* how many objects `new` has constructed in this run
    myPlayer,        \* state-pattern.ts: the MusicPlayer of the client code
    presses,         \* state-pattern.ts: history, the press calls made so far, counted up to MaxPresses
    instance,        \* singleton-pattern.ts: DatabaseConnection.instance
    returned,        \* singleton-pattern.ts: what each getInstance() call returned, in call order
    weatherStation,  \* observer-pattern.ts: the WeatherStation of the client code
    registrations,   \* observer-pattern.ts: history, the observer of every registerObserver call, in call order
    unregistered,    \* observer-pattern.ts: history, the registrations (by position) cancelled by removeObserver
    heap,            \* part_002 (builder): the fields of the objects built, by identity
    builder,         \* part_002 (builder): the UserBuilder of the client code (NULL before it is built)
    users,           \* part_002 (builder): history, the Users build() returned, in call order
    settersCalled,   \* part_002 (builder): history, the setters called on the builder
    navigator,       \* Strategy pattern.ts: the Navigator of the client code (NULL before it is built)
    strategies,      \* Strategy pattern.ts: history, the strategies installed (constructor, then setRouteStrategy), in order
    service,         \* part_003 (composition): the PaymentService of the client code (NULL before it is built)
    shapes,          \* open-closed.ts: the fields of the shapes built, by identity
    areas,           \* open-closed.ts: history, the values calculateArea() returned for each shape, in call order
    emp1,            \* encapsulation.ts: the Employee of the client code (NULL before it is built)
    written,         \* encapsulation.ts: history, the name and the age last passed to the constructor or a setter
    diagnostics,     \* part_001 (Liskov): the compiler's errors for the last call written in the client code
    callers,         \* singleton-pattern.ts, concurrent callers: each caller's position in getInstance() and its locals
    interleaved,     \* singleton-pattern.ts, concurrent callers: history, a caller has stepped while another was inside getInstance()
    atStart          \* observer-pattern.ts, observers that unsubscribe: history, the observer list when the last notifyObservers run started

vars == <<file, lastCall, trace, thrown, result, allocated, myPlayer, presses, instance,
          returned, weatherStation, registrations, unregistered,
          heap, builder, users, settersCalled, navigator, strategies,
          service, shapes, areas, emp1, written, diagnostics,
          callers, interleaved, atStart>>

-----------------------------------------------------------------------------
(* Bounds of the model.                                                    *)

\* press calls on the player are counted up to this number (and explored without limit)
MaxPresses == 2
\* getInstance() calls explored in one run of singleton-pattern.ts
MaxCalls == 4
\* Math.random() is drawn from the RandomSteps values k / RandomSteps, k \in 0..RandomSteps-1
RandomSteps == 8
\* registerObserver calls explored in one run of observer-pattern.ts
MaxRegistrations == 3
\* createNotification calls explored in one run of factory-pattern.ts
MaxNotifications == 2
\* Users built in one run of part_002 (builder)
MaxBuilds == 2
\* strategies installed in one run of Strategy pattern.ts (the constructor's and setRouteStrategy's)
MaxInstalls == 3
\* notifiers given to the PaymentService of part_003 (composition)
MaxNotifiers == 2
\* shapes built in one run of open-closed.ts
MaxShapes == 2
\* calculateArea() calls explored on one shape
MaxAreaCalls == 2
\* concurrent callers of getInstance()
MaxCallers == 2

-----------------------------------------------------------------------------
(* Objects, events and errors.                                             *)

\* An object reference: its class and its identity (the order of construction).
Obj(cls, id) == [cls |-> cls, id |-> id]

\* null / undefined / the return value of a void method
NULL == Obj("null", 0)

\* One step of a call: kind "log" is a console.log line (text: the template
\* pieces and interpolated strings, nums: the interpolated numbers), kind
\* "store" is a field assignment, kind "update" is a callback on obj.
Event(kind, obj, text, nums) == [kind |-> kind, obj |-> obj, text |-> text, nums |-> nums]

console_log(text, nums) == Event("log", NULL, text, nums)

\* No error: the call returned normally.
NoError == [raised |-> FALSE, message |-> <<>>]

\* throw new Error(message)
Error(message) == [raised |-> TRUE, message |-> message]

\* The record of a public call: its name, the object argument, the string
\* argument (as characters) and the numeric arguments.
Call(op, obj, text, nums) == [op |-> op, obj |-> obj, text |-> text, nums |-> nums]

NoCall == Call("", NULL, <<>>, <<>>)

Files ==
    {"state-pattern.ts", "singleton-pattern.ts", "observer-pattern.ts", "factory-pattern.ts",
     "part_002", "Strategy pattern.ts", "part_003",
     "open-closed.ts", "encapsulation.ts", "part_001"}

-----------------------------------------------------------------------------
(* state-pattern.ts                                                        *)

\* The outcome of a method on the player: the player afterwards, what was
\* printed, and the error thrown (none of the state methods throws).
Done(player, lines) == [player |-> player, trace |-> lines, thrown |-> NoError]

MusicPlayer_setState(player, state) == [player EXCEPT !.currentState = state]

MusicPlayer_getStoppedState(player) == player.stoppedState

\* Fault: the getter builds a playing state of its own on every call.
MusicPlayer_getPlayingState_fresh(player) == Obj("PlayingState", 5)

MusicPlayer_getPlayingState(player) == player.playingState

MusicPlayer_getPausedState(player) == player.pausedState

StoppedState_pressPlay(player) ==
    Done(MusicPlayer_setState(player, MusicPlayer_getPlayingState(player)),
         <<console_log(<<"Starting music from the beginning...">>, <<>>)>>)

StoppedState_pressPause(player) ==
    Done(player, <<console_log(<<"Cannot pause. The player is currently stopped.">>, <<>>)>>)

StoppedState_pressStop(player) ==
    Done(player, <<console_log(<<"Already stopped.">>, <<>>)>>)

PlayingState_pressPlay(player) ==
    Done(player, <<console_log(<<"Already playing music.">>, <<>>)>>)

PlayingState_pressPause(player) ==
    Done(MusicPlayer_setState(player, MusicPlayer_getPausedState(player)),
         <<console_log(<<"Music paused.">>, <<>>)>>)

\* Fault: stop while playing installs the paused state.
PlayingState_pressStop_pauses(player) ==
    Done(MusicPlayer_setState(player, MusicPlayer_getPausedState(player)),
         <<console_log(<<"Stopping music and resetting track.">>, <<>>)>>)

PlayingState_pressStop(player) ==
    Done(MusicPlayer_setState(player, MusicPlayer_getStoppedState(player)),
         <<console_log(<<"Stopping music and resetting track.">>, <<>>)>>)

\* Fault: play while paused prints the line and stays paused.
PausedState_pressPlay_stays(player) ==
    Done(player, <<console_log(<<"Resuming music...">>, <<>>)>>)

PausedState_pressPlay(player) ==
    Done(MusicPlayer_setState(player, MusicPlayer_getPlayingState(player)),
         <<console_log(<<"Resuming music...">>, <<>>)>>)

\* Fault: pause while paused toggles back to playing.
PausedState_pressPause_toggles(player) ==
    Done(MusicPlayer_setState(player, MusicPlayer_getPlayingState(player)),
         <<console_log(<<"Already paused.">>, <<>>)>>)

PausedState_pressPause(player) ==
    Done(player, <<console_log(<<"Already paused.">>, <<>>)>>)

PausedState_pressStop(player) ==
    Done(MusicPlayer_setState(player, MusicPlayer_getStoppedState(player)),
         <<console_log(<<"Stopping music and resetting track.">>, <<>>)>>)

\* Dynamic dispatch of PlayerState.pressPlay on the class of the receiver.
PlayerState_pressPlay(state, player) ==
    CASE state.cls = "StoppedState" -> StoppedState_pressPlay(player)
      [] state.cls = "PlayingState" -> PlayingState_pressPlay(player)
      [] state.cls = "PausedState"  -> PausedState_pressPlay(player)

PlayerState_pressPause(state, player) ==
    CASE state.cls = "StoppedState" -> StoppedState_pressPause(player)
      [] state.cls = "PlayingState" -> PlayingState_pressPause(player)
      [] state.cls = "PausedState"  -> PausedState_pressPause(player)

PlayerState_pressStop(state, player) ==
    CASE state.cls = "StoppedState" -> StoppedState_pressStop(player)
      [] state.cls = "PlayingState" -> PlayingState_pressStop(player)
      [] state.cls = "PausedState"  -> PausedState_pressStop(player)

MusicPlayer_pressPlay(player) == PlayerState_pressPlay(player.currentState, player)

MusicPlayer_pressPause(player) == PlayerState_pressPause(player.currentState, player)

MusicPlayer_pressStop(player) == PlayerState_pressStop(player.currentState, player)

\* Fault: the constructor installs the playing state as the initial state.
MusicPlayer_constructor_playing ==
    LET built == [stoppedState |-> Obj("StoppedState", 1),
                  playingState |-> Obj("PlayingState", 2),
                  pausedState  |-> Obj("PausedState", 3),
                  currentState |-> NULL]
    IN  [built EXCEPT !.currentState = built.playingState]

\* new MusicPlayer(): the three states are the first three objects built.
MusicPlayer_constructor ==
    LET built == [stoppedState |-> Obj("StoppedState", 1),
                  playingState |-> Obj("PlayingState", 2),
                  pausedState  |-> Obj("PausedState", 3),
                  currentState |-> NULL]
    IN  [built EXCEPT !.currentState = built.stoppedState]

-----------------------------------------------------------------------------
(* singleton-pattern.ts                                                    *)

\* The factor of Math.floor(Math.random() * 1000)
ConnectionIdRange == 1000

\* Math.floor(Math.random() * 1000), Math.random() being k / RandomSteps
RandomConnectionId(k) == (k * ConnectionIdRange) \div RandomSteps

\* private constructor(): the new object (the id-th built) and what it prints
DatabaseConnection_constructor(id, k) ==
    LET connectionId == RandomConnectionId(k)
    IN  [obj   |-> [cls |-> "DatabaseConnection", id |-> id, connectionId |-> connectionId],
         trace |-> <<console_log(<<"Database Instance Created. ID: ">>, <<connectionId>>)>>]

\* Fault: the instance is constructed when the class is loaded.
DatabaseConnection_instance_eager ==
    [cls |-> "DatabaseConnection", id |-> 1, connectionId |-> 0]

\* private static instance: DatabaseConnection | null = null
DatabaseConnection_instance == NULL


\* Fault: getInstance() without the check of the cached instance.
DatabaseConnection_getInstance_unchecked(cached, built, k) ==
    LET c == DatabaseConnection_constructor(built + 1, k)
    IN  [instance |-> c.obj, result |-> c.obj, trace |-> c.trace, allocated |-> built + 1]

\* static getInstance(), run with the cached instance `cached` when `built`
\* objects exist and Math.random() would return k / RandomSteps
DatabaseConnection_getInstance(cached, built, k) ==
    IF cached = NULL
    THEN LET c == DatabaseConnection_constructor(built + 1, k)
         IN  [instance |-> c.obj, result |-> c.obj, trace |-> c.trace, allocated |-> built + 1]
    ELSE [instance |-> cached, result |-> cached, trace |-> <<>>, allocated |-> built]

\* runQuery(sql) on the connection db
\* getInstance() statement by statement, for callers that may interleave.
\* if (!DatabaseConnection.instance): the test on the cached instance
DatabaseConnection_getInstance_test(cached) == cached = NULL

\* Fault: the instance is tested again before it is constructed.
DatabaseConnection_getInstance_new_retested(cached, built, k) ==
    IF cached = NULL
    THEN LET c == DatabaseConnection_constructor(built + 1, k)
         IN  [obj |-> c.obj, trace |-> c.trace, allocated |-> built + 1]
    ELSE [obj |-> cached, trace |-> <<>>, allocated |-> built]

\* new DatabaseConnection(), the right-hand side of the assignment, run with
\* the cached instance `cached` when `built` objects exist
DatabaseConnection_getInstance_new(cached, built, k) ==
    LET c == DatabaseConnection_constructor(built + 1, k)
    IN  [obj |-> c.obj, trace |-> c.trace, allocated |-> built + 1]

\* DatabaseConnection.instance = <the object constructed>
DatabaseConnection_getInstance_assign(cached, obj) == obj

\* return DatabaseConnection.instance
DatabaseConnection_getInstance_return(cached) == cached

\* A caller: where it is in getInstance() ("idle" before the call, then the
\* statement it runs next, "done" after the return), the object it
\* constructed and the value it was returned.
Caller(pc, built, value) == [pc |-> pc, built |-> built, result |-> value]

Callers == 1..MaxCallers


DatabaseConnection_runQuery(db, sql) ==
    <<console_log(<<"[ID: ", "] Executing: ", sql>>, <<db.connectionId>>)>>

Queries == {"SELECT * FROM users"}

-----------------------------------------------------------------------------
(* observer-pattern.ts                                                     *)

\* The objects of the client code, in construction order, and one more
\* PhoneDisplay (an observer of the same class and name, another identity).
phoneDisplay == Obj("PhoneDisplay", 2)

webDisplay == Obj("WebDisplay", 3)

tvDisplay == Obj("TVDisplay", 4)

otherPhone == Obj("PhoneDisplay", 5)

ObserverObjects == {phoneDisplay, webDisplay, tvDisplay, otherPhone}

\* Measurement pairs of the client code.
Measurements == {<<25, 65>>, <<28, 68>>}

\* new WeatherStation()
WeatherStation_constructor == [observers |-> <<>>, temperature |-> 0, humidity |-> 0]

Observer_getName(observer) ==
    CASE observer.cls = "PhoneDisplay" -> "Phone Display"
      [] observer.cls = "WebDisplay"   -> "Web Display"
      [] observer.cls = "TVDisplay"    -> "TV Display"
      [] observer.cls = "OneShotDisplay" -> "One-Shot Display"
      [] observer.cls = "Unsubscriber"   -> "Unsubscriber"

\* update(temperature, humidity) of the three displays: one console line each
Observer_update(observer, temperature, humidity) ==
    CASE observer.cls = "PhoneDisplay" ->
           <<console_log(<<"Phone: ", "C, ", "% humidity">>, <<temperature, humidity>>)>>
      [] observer.cls = "WebDisplay" ->
           <<console_log(<<"Website: Temperature ", "C, Humidity ", "%">>, <<temperature, humidity>>)>>
      [] observer.cls = "TVDisplay" ->
           <<console_log(<<"TV: NOW ", "C">>, <<temperature>>)>>

\* Fault: lastIndexOf in place of indexOf.
Array_lastIndexOf(arr, x) ==
    IF \E i \in 1..Len(arr) : arr[i] = x
    THEN (CHOOSE i \in 1..Len(arr) : arr[i] = x /\ \A j \in (i + 1)..Len(arr) : arr[j] # x) - 1
    ELSE -1

\* Array.prototype.indexOf: the 0-based index of the first element identical to x, or -1
Array_indexOf(arr, x) ==
    IF \E i \in 1..Len(arr) : arr[i] = x
    THEN (CHOOSE i \in 1..Len(arr) : arr[i] = x /\ \A j \in 1..(i - 1) : arr[j] # x) - 1
    ELSE -1

\* Fault: splice(index) without the delete count, which removes the rest of the array.
Array_splice_rest(arr, index) == SubSeq(arr, 1, index)

\* Array.prototype.splice(index, 1), index 0-based and within the array
Array_splice(arr, index) == SubSeq(arr, 1, index) \o SubSeq(arr, index + 2, Len(arr))

\* Fault: unshift in place of push.
Array_unshift(arr, x) == <<x>> \o arr

\* Array.prototype.push
Array_push(arr, x) == Append(arr, x)

\* Fault: registerObserver skips an observer that is already in the list.
WeatherStation_registerObserver_once(station, observer) ==
    [station |-> IF Array_indexOf(station.observers, observer) > -1
                 THEN station
                 ELSE [station EXCEPT !.observers = Array_push(@, observer)],
     trace   |-> <<console_log(<<Observer_getName(observer), " subscribed">>, <<>>)>>]

WeatherStation_registerObserver(station, observer) ==
    [station |-> [station EXCEPT !.observers = Array_push(@, observer)],
     trace   |-> <<console_log(<<Observer_getName(observer), " subscribed">>, <<>>)>>]

WeatherStation_removeObserver(station, observer) ==
    LET index == Array_indexOf(station.observers, observer)
    IN  IF index > -1
        THEN [station |-> [station EXCEPT !.observers = Array_splice(@, index)],
              trace   |-> <<console_log(<<Observer_getName(observer), " unsubscribed">>, <<>>)>>]
        ELSE [station |-> station, trace |-> <<>>]

\* for (const observer of this.observers) from the 0-based position i on:
\* the call of update on each element, followed by what that update prints
RECURSIVE WeatherStation_notifyLoop(_, _)
WeatherStation_notifyLoop(station, i) ==
    IF i >= Len(station.observers)
    THEN <<>>
    ELSE LET observer == station.observers[i + 1]
         IN  <<Event("update", observer, <<>>, <<station.temperature, station.humidity>>)>>
             \o Observer_update(observer, station.temperature, station.humidity)
             \o WeatherStation_notifyLoop(station, i + 1)

WeatherStation_notifyObservers(station) ==
    <<console_log(<<"Notifying all observers...">>, <<>>)>>
    \o WeatherStation_notifyLoop(station, 0)

\* Observers written against the Observer interface whose update() calls back
\* into the station: a OneShotDisplay prints once and unsubscribes itself, an
\* Unsubscriber unsubscribes the phone display.  The outcome of update() is
\* the station afterwards and what was printed.
Observer_updateOn(station, observer, temperature, humidity) ==
    CASE observer.cls = "OneShotDisplay" ->
           LET r == WeatherStation_removeObserver(station, observer)
           IN  [station |-> r.station,
                trace   |-> <<console_log(<<"Once: ", "C">>, <<temperature>>)>> \o r.trace]
      [] observer.cls = "Unsubscriber" ->
           WeatherStation_removeObserver(station, Obj("PhoneDisplay", 2))
      [] OTHER ->
           [station |-> station, trace |-> Observer_update(observer, temperature, humidity)]

\* for (const observer of this.observers) from the 0-based position i on,
\* when update() may change the list: the array iterator reads the element at
\* its position and the length of the array anew at every step.
RECURSIVE WeatherStation_notifyLoopOn(_, _)
WeatherStation_notifyLoopOn(station, i) ==
    IF i >= Len(station.observers)
    THEN [station |-> station, trace |-> <<>>]
    ELSE LET observer == station.observers[i + 1]
             u == Observer_updateOn(station, observer, station.temperature, station.humidity)
             rest == WeatherStation_notifyLoopOn(u.station, i + 1)
         IN  [station |-> rest.station,
              trace   |-> <<Event("update", observer, <<>>,
                                  <<station.temperature, station.humidity>>)>>
                          \o u.trace \o rest.trace]

\* notifyObservers() when update() may change the list
WeatherStation_notifyObserversOn(station) ==
    LET r == WeatherStation_notifyLoopOn(station, 0)
    IN  [station |-> r.station,
         trace   |-> <<console_log(<<"Notifying all observers...">>, <<>>)>> \o r.trace]

oneShotDisplay == Obj("OneShotDisplay", 6)

unsubscriber == Obj("Unsubscriber", 7)

CallbackObservers == {phoneDisplay, webDisplay, oneShotDisplay, unsubscriber}

\* Fault: setMeasurements notifies before it stores the new pair.
WeatherStation_setMeasurements_notifyFirst(station, temperature, humidity) ==
    LET s1 == [station EXCEPT !.temperature = temperature]
        s2 == [s1 EXCEPT !.humidity = humidity]
    IN  [station |-> s2,
         trace   |-> <<console_log(<<"New weather data: ", "C, ", "%">>, <<temperature, humidity>>)>>
                     \o WeatherStation_notifyObservers(station)
                     \o <<Event("store", NULL, <<"temperature">>, <<temperature>>),
                          Event("store", NULL, <<"humidity">>, <<humidity>>)>>]

\* Fault: setMeasurements stores the new pair before it prints the summary line.
WeatherStation_setMeasurements_storeFirst(station, temperature, humidity) ==
    LET s1 == [station EXCEPT !.temperature = temperature]
        s2 == [s1 EXCEPT !.humidity = humidity]
    IN  [station |-> s2,
         trace   |-> <<Event("store", NULL, <<"temperature">>, <<temperature>>),
                       Event("store", NULL, <<"humidity">>, <<humidity>>),
                       console_log(<<"New weather data: ", "C, ", "%">>, <<temperature, humidity>>)>>
                     \o WeatherStation_notifyObservers(s2)]

WeatherStation_setMeasurements(station, temperature, humidity) ==
    LET s1 == [station EXCEPT !.temperature = temperature]
        s2 == [s1 EXCEPT !.humidity = humidity]
    IN  [station |-> s2,
         trace   |-> <<console_log(<<"New weather data: ", "C, ", "%">>, <<temperature, humidity>>),
                       Event("store", NULL, <<"temperature">>, <<temperature>>),
                       Event("store", NULL, <<"humidity">>, <<humidity>>)>>
                     \o WeatherStation_notifyObservers(s2)]

\* History: the registrations (positions in `registrations`) not yet cancelled.
Live(regs, gone) == {n \in 1..Len(regs) : n \notin gone}

\* History: removeObserver(observer) cancels the earliest live registration of
\* observer, if there is one.
Cancel(regs, gone, observer) ==
    LET mine == {n \in Live(regs, gone) : regs[n] = observer}
    IN  IF mine = {} THEN gone
        ELSE gone \cup {CHOOSE n \in mine : \A m \in mine : n <= m}

-----------------------------------------------------------------------------
(* factory-pattern.ts                                                      *)

\* A string is the sequence of its characters.
Lowercase == <<"a", "b", "c", "d", "e", "f", "g", "h", "i", "j", "k", "l", "m",
               "n", "o", "p", "q", "r", "s", "t", "u", "v", "w", "x", "y", "z">>

Uppercase == <<"A", "B", "C", "D", "E", "F", "G", "H", "I", "J", "K", "L", "M",
               "N", "O", "P", "Q", "R", "S", "T", "U", "V", "W", "X", "Y", "Z">>

\* The upper-case letter of each lower-case letter.
UpperOf ==
    [c \in {Lowercase[i] : i \in 1..Len(Lowercase)} |->
        Uppercase[CHOOSE i \in 1..Len(Lowercase) : Lowercase[i] = c]]

\* The upper-case form of one character: letters a-z map to A-Z, every other
\* character of the inputs (upper-case letters, digits, the space) is kept.
Char_toUpperCase(c) == IF c \in DOMAIN UpperOf THEN UpperOf[c] ELSE c

\* String.prototype.toUpperCase
String_toUpperCase(s) == [i \in 1..Len(s) |-> Char_toUpperCase(s[i])]

EMAIL == <<"E", "M", "A", "I", "L">>

SMS == <<"S", "M", "S">>

PUSH == <<"P", "U", "S", "H">>

WHATSAPP == <<"W", "H", "A", "T", "S", "A", "P", "P">>

\* getType() of the four notification classes
Notification_getType(notification) ==
    CASE notification.cls = "EmailNotification"    -> "Email"
      [] notification.cls = "SMSNotification"      -> "SMS"
      [] notification.cls = "PushNotification"     -> "Push"
      [] notification.cls = "WhatsAppNotification" -> "WhatsApp"

\* send(message) of the four notification classes: two console lines
Notification_send(notification, message) ==
    CASE notification.cls = "EmailNotification" ->
           <<console_log(<<"Sending EMAIL: ", message>>, <<>>),
             console_log(<<"Email sent successfully!">>, <<>>)>>
      [] notification.cls = "SMSNotification" ->
           <<console_log(<<"Sending SMS: ", message>>, <<>>),
             console_log(<<"SMS sent successfully!">>, <<>>)>>
      [] notification.cls = "PushNotification" ->
           <<console_log(<<"Sending PUSH notification: ", message>>, <<>>),
             console_log(<<"Push notification sent successfully!">>, <<>>)>>
      [] notification.cls = "WhatsAppNotification" ->
           <<console_log(<<"Sending WhatsApp: ", message>>, <<>>),
             console_log(<<"WhatsApp message sent successfully!">>, <<>>)>>

\* The class the switch of createNotification selects for the key, "" for the default branch.
NotificationFactory_switch(key) ==
    CASE key = EMAIL    -> "EmailNotification"
      [] key = SMS      -> "SMSNotification"
      [] key = PUSH     -> "PushNotification"
      [] key = WHATSAPP -> "WhatsAppNotification"
      [] OTHER          -> ""

\* Fault: the switch on the type as passed, without toUpperCase().
NotificationFactory_key_asPassed(type) == type

\* The key createNotification switches on.
NotificationFactory_key(type) == String_toUpperCase(type)

\* static createNotification(type), when `built` objects exist
\* Fault: the error message interpolates the upper-cased key, not the type as passed.
NotificationFactory_createNotification_upperMessage(type, built) ==
    LET cls == NotificationFactory_switch(NotificationFactory_key(type))
    IN  IF cls # ""
        THEN [result |-> Obj(cls, built + 1), thrown |-> NoError, allocated |-> built + 1]
        ELSE [result |-> NULL,
              thrown |-> Error(<<"Unknown notification type: ">> \o NotificationFactory_key(type)),
              allocated |-> built]

NotificationFactory_createNotification(type, built) ==
    LET cls == NotificationFactory_switch(NotificationFactory_key(type))
    IN  IF cls # ""
        THEN [result |-> Obj(cls, built + 1), thrown |-> NoError, allocated |-> built + 1]
        ELSE [result |-> NULL, thrown |-> Error(<<"Unknown notification type: ">> \o type),
              allocated |-> built]

\* Every spelling of word in upper and lower case letters.
RECURSIVE CaseVariants(_)
CaseVariants(word) ==
    IF word = <<>> THEN {<<>>}
    ELSE LET c == Head(word)
             lower == IF \E i \in 1..Len(Uppercase) : Uppercase[i] = c
                      THEN Lowercase[CHOOSE i \in 1..Len(Uppercase) : Uppercase[i] = c]
                      ELSE c
         IN  {<<x>> \o rest : x \in {c, lower}, rest \in CaseVariants(Tail(word))}

\* Strings no notification type is spelled by.
OtherTypes ==
    {<<>>, <<"f", "a", "x">>, <<"F", "A", "X">>, <<"m", "a", "i", "l">>,
     <<"E", "M", "A", "I", "L", "S">>, <<"s", "m", "s", " ">>, <<" ", "S", "M", "S">>,
     <<"P", "U", "S", "H", "1">>, <<"e", "-", "m", "a", "i", "l">>,
     <<"W", "H", "A", "T", "S", " ", "A", "P", "P">>}

\* The type strings createNotification is called with.
TypeInputs ==
    CaseVariants(EMAIL) \cup CaseVariants(SMS) \cup CaseVariants(PUSH)
    \cup CaseVariants(WHATSAPP) \cup OtherTypes

Messages == {"Your order has been confirmed!"}

-----------------------------------------------------------------------------
(* part_002: the builder pattern                                           *)

\* An optional value: undefined, or the value present.
UNDEFINED == <<>>

Some(v) == <<v>>

Whitespace == {" ", "\t", "\n"}

\* String.prototype.trim: s without its leading and trailing whitespace
RECURSIVE String_trimStart(_)
String_trimStart(s) ==
    IF s # <<>> /\ Head(s) \in Whitespace THEN String_trimStart(Tail(s)) ELSE s

RECURSIVE String_trimEnd(_)
String_trimEnd(s) ==
    IF s # <<>> /\ s[Len(s)] \in Whitespace
    THEN String_trimEnd(SubSeq(s, 1, Len(s) - 1))
    ELSE s

String_trim(s) == String_trimEnd(String_trimStart(s))

\* !value for an optional string: undefined and '' are falsy
String_not(value) == value = UNDEFINED \/ value[1] = <<>>

\* new UserBuilder(name): the heap with the new builder, and the reference to it
UserBuilder_constructor(h, name) ==
    [heap   |-> Append(h, [cls |-> "UserBuilder", name |-> name, age |-> UNDEFINED,
                           phone |-> UNDEFINED, address |-> UNDEFINED]),
     result |-> Obj("UserBuilder", Len(h) + 1)]

UserBuilder_setAge(h, this, age) ==
    [heap |-> [h EXCEPT ![this.id].age = Some(age)], result |-> this]

\* Fault: setPhone also assigns the address.
UserBuilder_setPhone_andAddress(h, this, phone) ==
    [heap |-> [h EXCEPT ![this.id].phone = Some(phone), ![this.id].address = Some(phone)],
     result |-> this]

UserBuilder_setPhone(h, this, phone) ==
    [heap |-> [h EXCEPT ![this.id].phone = Some(phone)], result |-> this]

UserBuilder_setAddress(h, this, address) ==
    [heap |-> [h EXCEPT ![this.id].address = Some(address)], result |-> this]

\* Fault: the User constructor does not copy the address.
User_constructor_noAddress(h, b) ==
    Append(h, [cls |-> "User", name |-> h[b.id].name, age |-> h[b.id].age,
               phone |-> h[b.id].phone, address |-> UNDEFINED])

\* new User(builder): the heap with the new User, its fields copied from the builder
User_constructor(h, b) ==
    Append(h, [cls |-> "User", name |-> h[b.id].name, age |-> h[b.id].age,
               phone |-> h[b.id].phone, address |-> h[b.id].address])

\* Fault: build() checks the name without trimming it.
UserBuilder_build_untrimmed(h, this) ==
    IF String_not(h[this.id].name)
    THEN [heap |-> h, result |-> NULL, thrown |-> Error(<<"Name is required!">>)]
    ELSE [heap |-> User_constructor(h, this), result |-> Obj("User", Len(h) + 1),
          thrown |-> NoError]

\* Fault: build() hands out the builder itself as the User.
UserBuilder_build_returnsThis(h, this) ==
    IF String_not(h[this.id].name) \/ String_trim(h[this.id].name[1]) = <<>>
    THEN [heap |-> h, result |-> NULL, thrown |-> Error(<<"Name is required!">>)]
    ELSE [heap |-> h, result |-> this, thrown |-> NoError]

UserBuilder_build(h, this) ==
    IF String_not(h[this.id].name) \/ String_trim(h[this.id].name[1]) = <<>>
    THEN [heap |-> h, result |-> NULL, thrown |-> Error(<<"Name is required!">>)]
    ELSE [heap |-> User_constructor(h, this), result |-> Obj("User", Len(h) + 1),
          thrown |-> NoError]

\* The names, ages, phones and addresses the builder is called with.
Names ==
    {UNDEFINED, Some(<<>>), Some(<<" ">>), Some(<<" ", "\t">>),
     Some(<<"A", "l", "i", "c", "e">>), Some(<<" ", "B", "o", "b", " ">>)}

Ages == {28, 35}

Phones == {"555-0100"}

Addresses == {"123 Main St"}

-----------------------------------------------------------------------------
(* Strategy pattern.ts                                                     *)

\* A number that arises as a quotient of two integers, kept exact.
Number_div(num, den) == [num |-> num, den |-> den]

\* Number.prototype.toFixed(1) of x >= 0: the digits <<whole, tenth>> of the
\* decimals nearest to x.  When x lies exactly between two of them the binary
\* value the program holds may lie on either side, so both are possible.
Number_toFixed1(x) ==
    LET t == (10 * x.num) \div x.den
        r == 10 * x.num - t * x.den
        tenths == IF 2 * r < x.den THEN {t}
                  ELSE IF 2 * r > x.den THEN {t + 1}
                  ELSE {t, t + 1}
    IN  {<<n \div 10, n % 10>> : n \in tenths}

CarRouteStrategy_calculateRoute(start, end) ==
    <<console_log(<<"Car Route: ", start, " -> ", end>>, <<>>)>>

CarRouteStrategy_getEstimatedTime(distance) ==
    LET avgSpeed == 60 IN Number_div(distance, avgSpeed)

BikeRouteStrategy_calculateRoute(start, end) ==
    <<console_log(<<"Bike Route: ", start, " -> ", end>>, <<>>)>>

\* Fault: the bike strategy estimates with the car's speed.
BikeRouteStrategy_getEstimatedTime_carSpeed(distance) ==
    LET avgSpeed == 60 IN Number_div(distance, avgSpeed)


BikeRouteStrategy_getEstimatedTime(distance) ==
    LET avgSpeed == 15 IN Number_div(distance, avgSpeed)

WalkingRouteStrategy_calculateRoute(start, end) ==
    <<console_log(<<"Walking Route: ", start, " -> ", end>>, <<>>)>>

WalkingRouteStrategy_getEstimatedTime(distance) ==
    LET avgSpeed == 5 IN Number_div(distance, avgSpeed)

\* Dynamic dispatch of RouteStrategy.calculateRoute on the class of the receiver.
RouteStrategy_calculateRoute(strategy, start, end) ==
    CASE strategy.cls = "CarRouteStrategy"     -> CarRouteStrategy_calculateRoute(start, end)
      [] strategy.cls = "BikeRouteStrategy"    -> BikeRouteStrategy_calculateRoute(start, end)
      [] strategy.cls = "WalkingRouteStrategy" -> WalkingRouteStrategy_calculateRoute(start, end)

RouteStrategy_getEstimatedTime(strategy, distance) ==
    CASE strategy.cls = "CarRouteStrategy"     -> CarRouteStrategy_getEstimatedTime(distance)
      [] strategy.cls = "BikeRouteStrategy"    -> BikeRouteStrategy_getEstimatedTime(distance)
      [] strategy.cls = "WalkingRouteStrategy" -> WalkingRouteStrategy_getEstimatedTime(distance)

\* new Navigator(strategy)
Navigator_constructor(strategy) == [routeStrategy |-> strategy]

\* Fault: setRouteStrategy announces the change without making it.
Navigator_setRouteStrategy_keeps(nav, strategy) ==
    [navigator |-> nav,
     trace     |-> <<console_log(<<"Route strategy changed!">>, <<>>)>>]


Navigator_setRouteStrategy(nav, strategy) ==
    [navigator |-> [nav EXCEPT !.routeStrategy = strategy],
     trace     |-> <<console_log(<<"Route strategy changed!">>, <<>>)>>]

\* buildRoute(start, end, distance): the possible outcomes, one per rendering of the time.
\* The trace holds the two calls on the strategy (the second with the distance
\* and the time returned, as numerator and denominator) and the lines printed.
Navigator_buildRoute(nav, start, end, distance) ==
    LET time == RouteStrategy_getEstimatedTime(nav.routeStrategy, distance)
    IN  {[navigator |-> nav,
          trace     |-> <<Event("calculateRoute", nav.routeStrategy, <<start, end>>, <<>>)>>
                        \o RouteStrategy_calculateRoute(nav.routeStrategy, start, end)
                        \o <<Event("getEstimatedTime", nav.routeStrategy, <<>>,
                                   <<distance, time.num, time.den>>),
                             console_log(<<"Distance: ", " km">>, <<distance>>),
                             console_log(<<"Estimated time: ", ".", " hours">>, shown)>>]
         : shown \in Number_toFixed1(time)}

\* The strategy objects of the client code, in construction order (the
\* navigator is the second object), and one more CarRouteStrategy.
carRouteStrategy == Obj("CarRouteStrategy", 1)

bikeRouteStrategy == Obj("BikeRouteStrategy", 3)

walkingRouteStrategy == Obj("WalkingRouteStrategy", 4)

otherCarRouteStrategy == Obj("CarRouteStrategy", 5)

RouteStrategies == {carRouteStrategy, bikeRouteStrategy, walkingRouteStrategy, otherCarRouteStrategy}

\* The routes and distances buildRoute is called with: those of the client
\* code, and a distance whose car time (0.15 h) lies between two decimals.
Routes == {<<"Home", "Office">>, <<"Home", "Gym">>}

Distances == {30, 5, 9}

-----------------------------------------------------------------------------
(* part_003: composition, PaymentService                                   *)

CreditCardProcessor_process(amount) ==
    <<console_log(<<"Processing $", " via Credit Card">>, <<amount>>)>>

PayPalProcessor_process(amount) ==
    <<console_log(<<"Processing $", " via PayPal">>, <<amount>>)>>

\* FraudValidator.validate(amount): the value returned and the lines printed
FraudValidator_validate(amount) ==
    [result |-> amount <= 10000,
     trace  |-> <<console_log(<<"Running fraud detection...">>, <<>>)>>]

EmailNotifier_notify(amount) ==
    <<console_log(<<"Email sent: Payment of $", " processed">>, <<amount>>)>>

SMSNotifier_notify(amount) ==
    <<console_log(<<"SMS sent: Payment of $", " processed">>, <<amount>>)>>

\* Dynamic dispatch of the three interfaces; each call is recorded in the
\* trace before the lines its body prints.
PaymentProcessor_process(processor, amount) ==
    <<Event("process", processor, <<>>, <<amount>>)>>
    \o (CASE processor.cls = "CreditCardProcessor" -> CreditCardProcessor_process(amount)
          [] processor.cls = "PayPalProcessor"     -> PayPalProcessor_process(amount))

PaymentValidator_validate(validator, amount) ==
    LET v == CASE validator.cls = "FraudValidator" -> FraudValidator_validate(amount)
    IN  [result |-> v.result,
         trace  |-> <<Event("validate", validator,
                            <<IF v.result THEN "true" ELSE "false">>, <<amount>>)>>
                    \o v.trace]

PaymentNotifier_notify(notifier, amount) ==
    <<Event("notify", notifier, <<>>, <<amount>>)>>
    \o (CASE notifier.cls = "EmailNotifier" -> EmailNotifier_notify(amount)
          [] notifier.cls = "SMSNotifier"   -> SMSNotifier_notify(amount))

\* new PaymentService(processor, validator?, notifiers = [])
PaymentService_constructor(processor, validator, notifiers) ==
    [processor |-> processor,
     validator |-> validator,
     notifiers |-> IF notifiers = UNDEFINED THEN <<>> ELSE notifiers[1]]

RECURSIVE PaymentService_forEachNotifier_backwards(_, _, _)
RECURSIVE PaymentService_forEachNotifier(_, _, _)


\* Fault: forEach visits the notifiers from the last to the first.
PaymentService_forEachNotifier_backwards(notifiers, i, amount) ==
    IF i > Len(notifiers) THEN <<>>
    ELSE PaymentService_forEachNotifier_backwards(notifiers, i + 1, amount)
         \o PaymentNotifier_notify(notifiers[i], amount)

\* this.notifiers.forEach(n => n.notify(amount)), from index i on
PaymentService_forEachNotifier(notifiers, i, amount) ==
    IF i > Len(notifiers) THEN <<>>
    ELSE PaymentNotifier_notify(notifiers[i], amount)
         \o PaymentService_forEachNotifier(notifiers, i + 1, amount)

\* Fault: execute() goes on after a failed validation.
PaymentService_execute_noReturn(svc, amount) ==
    LET validated == IF svc.validator # UNDEFINED
                     THEN PaymentValidator_validate(svc.validator[1], amount)
                     ELSE [result |-> TRUE, trace |-> <<>>]
    IN  validated.trace
        \o (IF svc.validator # UNDEFINED /\ ~validated.result
            THEN <<console_log(<<"Payment failed validation">>, <<>>)>> ELSE <<>>)
        \o PaymentProcessor_process(svc.processor, amount)
        \o PaymentService_forEachNotifier(svc.notifiers, 1, amount)

\* execute(amount): the calls made and the lines printed
PaymentService_execute(svc, amount) ==
    LET validated == IF svc.validator # UNDEFINED
                     THEN PaymentValidator_validate(svc.validator[1], amount)
                     ELSE [result |-> TRUE, trace |-> <<>>]
    IN  IF svc.validator # UNDEFINED /\ ~validated.result
        THEN validated.trace \o <<console_log(<<"Payment failed validation">>, <<>>)>>
        ELSE validated.trace
             \o PaymentProcessor_process(svc.processor, amount)
             \o PaymentService_forEachNotifier(svc.notifiers, 1, amount)

\* The parts a service is composed of: those of the client code and the
\* other classes of the file.
creditCardProcessor == Obj("CreditCardProcessor", 1)

payPalProcessor == Obj("PayPalProcessor", 2)

fraudValidator == Obj("FraudValidator", 3)

emailNotifier == Obj("EmailNotifier", 4)

smsNotifier == Obj("SMSNotifier", 5)

Processors == {creditCardProcessor, payPalProcessor}

Validators == {UNDEFINED, Some(fraudValidator)}

Notifiers == {emailNotifier, smsNotifier}

\* The third constructor argument: omitted, or an array of notifiers.
NotifierLists ==
    {UNDEFINED} \cup {Some(list) : list \in UNION {[1..n -> Notifiers] : n \in 0..MaxNotifiers}}

\* Amounts paid: the client's, the validator's limit and the first above it.
Amounts == {5000, 10000, 10001}

-----------------------------------------------------------------------------
(* open-closed.ts                                                          *)

\* A number of the form pi * Math.PI + plain, kept exact.
Num(n) == [pi |-> 0, plain |-> n]

Math_PI == [pi |-> 1, plain |-> 0]

\* a * n for an integer n
Number_times(a, n) == [pi |-> a.pi * n, plain |-> a.plain * n]

\* new Circle(radius), new Rectangle(width, height)
Circle_constructor(radius) == [cls |-> "Circle", radius |-> radius]

Rectangle_constructor(width, height) ==
    [cls |-> "Rectangle", width |-> width, height |-> height]

\* calculateArea() on the shape `this`: the shape afterwards and the value returned
Circle_calculateArea(this) ==
    [this |-> this, result |-> Number_times(Math_PI, this.radius * this.radius)]

\* Fault: the rectangle keeps the area it computed in place of its width.
Rectangle_calculateArea_overwrites(this) ==
    [this   |-> [this EXCEPT !.width = this.width * this.height],
     result |-> Num(this.width * this.height)]

Rectangle_calculateArea(this) ==
    [this |-> this, result |-> Num(this.width * this.height)]

\* Dynamic dispatch of Shape.calculateArea on the shape with identity id of
\* the heap h; the call and the value it returned are recorded in the trace.
Shape_calculateArea(h, id) ==
    LET r == CASE h[id].cls = "Circle"    -> Circle_calculateArea(h[id])
               [] h[id].cls = "Rectangle" -> Rectangle_calculateArea(h[id])
    IN  [heap   |-> [h EXCEPT ![id] = r.this],
         result |-> r.result,
         trace  |-> <<Event("calculateArea", Obj(h[id].cls, id), <<>>,
                            <<r.result.pi, r.result.plain>>)>>]

\* Fault: the calculator computes by the class of the shape, a rectangle as a square.
AreaCalculator_calculateArea_byClass(h, id) ==
    [heap   |-> h,
     result |-> IF h[id].cls = "Circle"
                THEN Number_times(Math_PI, h[id].radius * h[id].radius)
                ELSE Num(h[id].width * h[id].width),
     trace  |-> <<>>]

\* AreaCalculator.calculateArea(shape)
AreaCalculator_calculateArea(h, id) == Shape_calculateArea(h, id)

\* Dimensions of the shapes built: the client's circle, the rectangle 3 x 4.
Radii == {1, 2}

Sides == {3, 4}

-----------------------------------------------------------------------------
(* encapsulation.ts                                                        *)

\* new Employee(name, age)
Employee_constructor(name, age) == [name |-> name, age |-> age]

\* Each method on the employee `this`: the employee afterwards and the value returned.
Employee_getName(this) == [this |-> this, result |-> this.name]

\* Fault: setName resets the age.
Employee_setName_resetsAge(this, name) ==
    [this |-> [this EXCEPT !.name = name, !.age = 0], result |-> NULL]

Employee_setName(this, name) ==
    [this |-> [this EXCEPT !.name = name], result |-> NULL]

Employee_getAge(this) == [this |-> this, result |-> this.age]

Employee_setAge(this, age) ==
    [this |-> [this EXCEPT !.age = age], result |-> NULL]

\* The arguments of the client's constructor call, and those the setters
\* are called with (nothing is validated: the empty name, a negative age).
EmployeeNames == {"John"}

EmployeeAges == {35}

NewNames == {"John", "Jane", ""}

NewAges == {35, 36, -1}

-----------------------------------------------------------------------------
(* part_001: Liskov substitution, the corrected bird classes               *)

\* The class declarations: the superclass ("" for none) and the methods declared.
Classes ==
    [Bird       |-> [extends |-> "",           methods |-> {"eat"}],
     FlyingBird |-> [extends |-> "Bird",       methods |-> {"fly"}],
     Penguin    |-> [extends |-> "Bird",       methods |-> {"swim"}],
     Sparrow    |-> [extends |-> "FlyingBird", methods |-> {"fly"}]]

RECURSIVE Members(_)
RECURSIVE Lookup(_, _)

\* The members of the instance type of a class: its own and the inherited ones.
Members(cls) ==
    IF cls = "" THEN {} ELSE Classes[cls].methods \cup Members(Classes[cls].extends)

\* Type compatibility of the compiler is structural: a value of class
\* `source` is assignable to a parameter of type `target` when it has every
\* member of the target.
Assignable(source, target) == Members(target) \subseteq Members(source)

\* The class whose declaration of `method` an object of class cls runs
\* (the nearest up the prototype chain), "" when there is none.
Lookup(cls, method) ==
    IF cls = "" THEN ""
    ELSE IF method \in Classes[cls].methods THEN cls
    ELSE Lookup(Classes[cls].extends, method)

FlyingBird_fly == <<console_log(<<"Flying...">>, <<>>)>>

Sparrow_fly == <<console_log(<<"Sparrow flying high!">>, <<>>)>>

\* bird.fly() at run time: a TypeError when the object has no such method.
Bird_fly(bird) ==
    LET cls == Lookup(bird.cls, "fly")
    IN  IF cls = ""
        THEN [trace |-> <<>>, thrown |-> Error(<<"bird.fly is not a function">>)]
        ELSE [trace  |-> <<Event("fly", bird, <<cls>>, <<>>)>>
                         \o (CASE cls = "FlyingBird" -> FlyingBird_fly
                               [] cls = "Sparrow"    -> Sparrow_fly),
              thrown |-> NoError]

\* Fault: makeBirdFly takes any Bird, as in the flawed version.
makeBirdFly_parameter_Bird == "Bird"

\* The declared type of the parameter of makeBirdFly.
makeBirdFly_parameter == "FlyingBird"

\* The compiler's errors for the call makeBirdFly(bird).
makeBirdFly_check(bird) ==
    IF Assignable(bird.cls, makeBirdFly_parameter)
    THEN <<>>
    ELSE <<[code |-> "TS2345", argument |-> bird.cls, parameter |-> makeBirdFly_parameter]>>

\* makeBirdFly(bird) at run time
makeBirdFly_run(bird) == Bird_fly(bird)

\* The birds of the client code and one of each other class.
penguin == Obj("Penguin", 1)

sparrow == Obj("Sparrow", 2)

flyingBird == Obj("FlyingBird", 3)

plainBird == Obj("Bird", 4)

Birds == {penguin, sparrow, flyingBird, plainBird}

-----------------------------------------------------------------------------
(* The programs: the state after construction and one action per operation. *)

playerVars == <<myPlayer, presses>>

singletonVars == <<instance, returned>>

observerVars == <<weatherStation, registrations, unregistered>>

builderVars == <<heap, builder, users, settersCalled>>

navigatorVars == <<navigator, strategies>>

paymentVars == <<service>>

shapeVars == <<shapes, areas>>

employeeVars == <<emp1, written>>

compilerVars == <<diagnostics>>

callerVars == <<callers, interleaved>>

notifyVars == <<atStart>>

\* The objects the client code of each file builds before its first call.
ClientObjects(f) ==
    CASE f = "state-pattern.ts"     -> 4
      [] f = "singleton-pattern.ts" -> 0
      [] f = "observer-pattern.ts"  -> 5
      [] f = "factory-pattern.ts"   -> 0
      [] f = "part_002"             -> 0
      [] f = "Strategy pattern.ts"  -> 5
      [] f = "part_003"             -> 5
      [] f = "open-closed.ts"       -> 1
      [] f = "encapsulation.ts"     -> 0
      [] f = "part_001"             -> 4

Init ==
    /\ file \in Files
    /\ lastCall = NoCall
    /\ trace = <<>>
    /\ thrown = NoError
    /\ result = NULL
    /\ allocated = ClientObjects(file)
    /\ myPlayer = MusicPlayer_constructor
    /\ presses = 0
    /\ instance = DatabaseConnection_instance
    /\ returned = <<>>
    /\ weatherStation = WeatherStation_constructor
    /\ registrations = <<>>
    /\ unregistered = {}
    /\ heap = <<>>
    /\ builder = NULL
    /\ users = <<>>
    /\ settersCalled = {}
    /\ navigator = NULL
    /\ strategies = <<>>
    /\ service = NULL
    /\ shapes = <<>>
    /\ areas = <<>>
    /\ emp1 = NULL
    /\ written = NULL
    /\ diagnostics = <<>>
    /\ callers = <<>>
    /\ interleaved = FALSE
    /\ atStart = <<>>

\* myPlayer.pressPlay()
pressPlay ==
    /\ file = "state-pattern.ts"
    /\ LET r == MusicPlayer_pressPlay(myPlayer)
       IN  /\ myPlayer' = r.player
           /\ trace' = r.trace
           /\ thrown' = r.thrown
    /\ lastCall' = Call("pressPlay", NULL, <<>>, <<>>)
    /\ presses' = IF presses < MaxPresses THEN presses + 1 ELSE presses
    /\ result' = NULL
    /\ UNCHANGED <<file, allocated, singletonVars, observerVars, builderVars, navigatorVars,
                   paymentVars, shapeVars, employeeVars, compilerVars, callerVars,
                   notifyVars>>

\* myPlayer.pressPause()
pressPause ==
    /\ file = "state-pattern.ts"
    /\ LET r == MusicPlayer_pressPause(myPlayer)
       IN  /\ myPlayer' = r.player
           /\ trace' = r.trace
           /\ thrown' = r.thrown
    /\ lastCall' = Call("pressPause", NULL, <<>>, <<>>)
    /\ presses' = IF presses < MaxPresses THEN presses + 1 ELSE presses
    /\ result' = NULL
    /\ UNCHANGED <<file, allocated, singletonVars, observerVars, builderVars, navigatorVars,
                   paymentVars, shapeVars, employeeVars, compilerVars, callerVars,
                   notifyVars>>

\* myPlayer.pressStop()
pressStop ==
    /\ file = "state-pattern.ts"
    /\ LET r == MusicPlayer_pressStop(myPlayer)
       IN  /\ myPlayer' = r.player
           /\ trace' = r.trace
           /\ thrown' = r.thrown
    /\ lastCall' = Call("pressStop", NULL, <<>>, <<>>)
    /\ presses' = IF presses < MaxPresses THEN presses + 1 ELSE presses
    /\ result' = NULL
    /\ UNCHANGED <<file, allocated, singletonVars, observerVars, builderVars, navigatorVars,
                   paymentVars, shapeVars, employeeVars, compilerVars, callerVars,
                   notifyVars>>

\* DatabaseConnection.getInstance()
getInstance ==
    /\ file = "singleton-pattern.ts"
    /\ Len(returned) < MaxCalls
    /\ \E k \in 0..(RandomSteps - 1) :
         LET r == DatabaseConnection_getInstance(instance, allocated, k)
         IN  /\ instance' = r.instance
             /\ result' = r.result
             /\ returned' = Append(returned, r.result)
             /\ trace' = r.trace
             /\ allocated' = r.allocated
    /\ lastCall' = Call("getInstance", NULL, <<>>, <<>>)
    /\ thrown' = NoError
    /\ UNCHANGED <<file, playerVars, observerVars, builderVars, navigatorVars,
                   paymentVars, shapeVars, employeeVars, compilerVars, callerVars,
                   notifyVars>>

\* db.runQuery(sql), db being a connection some getInstance() call returned
runQuery ==
    /\ file = "singleton-pattern.ts"
    /\ \E n \in 1..Len(returned), sql \in Queries :
         /\ trace' = DatabaseConnection_runQuery(returned[n], sql)
         /\ lastCall' = Call("runQuery", returned[n], <<sql>>, <<>>)
    /\ thrown' = NoError
    /\ result' = NULL
    /\ UNCHANGED <<file, allocated, playerVars, singletonVars, observerVars, builderVars, navigatorVars,
                   paymentVars, shapeVars, employeeVars, compilerVars, callerVars,
                   notifyVars>>

\* weatherStation.registerObserver(observer)
registerObserver ==
    /\ file = "observer-pattern.ts"
    /\ Len(registrations) < MaxRegistrations
    /\ \E observer \in ObserverObjects :
         LET r == WeatherStation_registerObserver(weatherStation, observer)
         IN  /\ weatherStation' = r.station
             /\ trace' = r.trace
             /\ registrations' = Append(registrations, observer)
             /\ lastCall' = Call("registerObserver", observer, <<>>, <<>>)
    /\ thrown' = NoError
    /\ result' = NULL
    /\ UNCHANGED <<file, allocated, playerVars, singletonVars, unregistered, builderVars, navigatorVars,
                   paymentVars, shapeVars, employeeVars, compilerVars, callerVars,
                   notifyVars>>

\* weatherStation.removeObserver(observer)
removeObserver ==
    /\ file = "observer-pattern.ts"
    /\ \E observer \in ObserverObjects :
         LET r == WeatherStation_removeObserver(weatherStation, observer)
         IN  /\ weatherStation' = r.station
             /\ trace' = r.trace
             /\ unregistered' = Cancel(registrations, unregistered, observer)
             /\ lastCall' = Call("removeObserver", observer, <<>>, <<>>)
    /\ thrown' = NoError
    /\ result' = NULL
    /\ UNCHANGED <<file, allocated, playerVars, singletonVars, registrations, builderVars, navigatorVars,
                   paymentVars, shapeVars, employeeVars, compilerVars, callerVars,
                   notifyVars>>

\* weatherStation.notifyObservers()
notifyObservers ==
    /\ file = "observer-pattern.ts"
    /\ trace' = WeatherStation_notifyObservers(weatherStation)
    /\ lastCall' = Call("notifyObservers", NULL, <<>>, <<>>)
    /\ thrown' = NoError
    /\ result' = NULL
    /\ UNCHANGED <<file, allocated, playerVars, singletonVars, observerVars, builderVars, navigatorVars,
                   paymentVars, shapeVars, employeeVars, compilerVars, callerVars,
                   notifyVars>>

\* weatherStation.setMeasurements(temperature, humidity)
setMeasurements ==
    /\ file = "observer-pattern.ts"
    /\ \E m \in Measurements :
         LET r == WeatherStation_setMeasurements(weatherStation, m[1], m[2])
         IN  /\ weatherStation' = r.station
             /\ trace' = r.trace
             /\ lastCall' = Call("setMeasurements", NULL, <<>>, <<m[1], m[2]>>)
    /\ thrown' = NoError
    /\ result' = NULL
    /\ UNCHANGED <<file, allocated, playerVars, singletonVars, registrations, unregistered,
                   builderVars, navigatorVars,
                   paymentVars, shapeVars, employeeVars, compilerVars, callerVars,
                   notifyVars>>

\* NotificationFactory.createNotification(type)
createNotification ==
    /\ file = "factory-pattern.ts"
    /\ allocated < MaxNotifications
    /\ \E type \in TypeInputs :
         LET r == NotificationFactory_createNotification(type, allocated)
         IN  /\ result' = r.result
             /\ thrown' = r.thrown
             /\ allocated' = r.allocated
             /\ lastCall' = Call("createNotification", NULL, type, <<>>)
    /\ trace' = <<>>
    /\ UNCHANGED <<file, playerVars, singletonVars, observerVars, builderVars, navigatorVars,
                   paymentVars, shapeVars, employeeVars, compilerVars, callerVars,
                   notifyVars>>

\* notification.send(message), notification being what the last createNotification returned
send ==
    /\ file = "factory-pattern.ts"
    /\ lastCall.op = "createNotification"
    /\ result # NULL
    /\ \E message \in Messages :
         /\ trace' = Notification_send(result, message)
         /\ lastCall' = Call("send", result, <<message>>, <<>>)
    /\ thrown' = NoError
    /\ result' = NULL
    /\ UNCHANGED <<file, allocated, playerVars, singletonVars, observerVars, builderVars, navigatorVars,
                   paymentVars, shapeVars, employeeVars, compilerVars, callerVars,
                   notifyVars>>

\* new UserBuilder(name): the client code builds its one builder
newUserBuilder ==
    /\ file = "part_002"
    /\ builder = NULL
    /\ \E name \in Names :
         LET r == UserBuilder_constructor(heap, name)
         IN  /\ heap' = r.heap
             /\ builder' = r.result
             /\ result' = r.result
             /\ allocated' = Len(r.heap)
             /\ lastCall' = Call("new UserBuilder", NULL, name, <<>>)
    /\ trace' = <<>>
    /\ thrown' = NoError
    /\ UNCHANGED <<file, playerVars, singletonVars, observerVars, users, settersCalled,
                   navigatorVars, paymentVars, shapeVars, employeeVars, compilerVars,
                   callerVars, notifyVars>>

\* builder.setAge(age)
setAge ==
    /\ file = "part_002"
    /\ builder # NULL
    /\ \E age \in Ages :
         LET r == UserBuilder_setAge(heap, builder, age)
         IN  /\ heap' = r.heap
             /\ result' = r.result
             /\ lastCall' = Call("setAge", NULL, <<>>, <<age>>)
    /\ settersCalled' = settersCalled \cup {"setAge"}
    /\ trace' = <<>>
    /\ thrown' = NoError
    /\ UNCHANGED <<file, allocated, playerVars, singletonVars, observerVars, builder, users,
                   navigatorVars, paymentVars, shapeVars, employeeVars, compilerVars,
                   callerVars, notifyVars>>

\* builder.setPhone(phone)
setPhone ==
    /\ file = "part_002"
    /\ builder # NULL
    /\ \E phone \in Phones :
         LET r == UserBuilder_setPhone(heap, builder, phone)
         IN  /\ heap' = r.heap
             /\ result' = r.result
             /\ lastCall' = Call("setPhone", NULL, <<phone>>, <<>>)
    /\ settersCalled' = settersCalled \cup {"setPhone"}
    /\ trace' = <<>>
    /\ thrown' = NoError
    /\ UNCHANGED <<file, allocated, playerVars, singletonVars, observerVars, builder, users,
                   navigatorVars, paymentVars, shapeVars, employeeVars, compilerVars,
                   callerVars, notifyVars>>

\* builder.setAddress(address)
setAddress ==
    /\ file = "part_002"
    /\ builder # NULL
    /\ \E address \in Addresses :
         LET r == UserBuilder_setAddress(heap, builder, address)
         IN  /\ heap' = r.heap
             /\ result' = r.result
             /\ lastCall' = Call("setAddress", NULL, <<address>>, <<>>)
    /\ settersCalled' = settersCalled \cup {"setAddress"}
    /\ trace' = <<>>
    /\ thrown' = NoError
    /\ UNCHANGED <<file, allocated, playerVars, singletonVars, observerVars, builder, users,
                   navigatorVars, paymentVars, shapeVars, employeeVars, compilerVars,
                   callerVars, notifyVars>>

\* builder.build()
build ==
    /\ file = "part_002"
    /\ builder # NULL
    /\ Len(users) < MaxBuilds
    /\ LET r == UserBuilder_build(heap, builder)
       IN  /\ heap' = r.heap
           /\ result' = r.result
           /\ thrown' = r.thrown
           /\ allocated' = Len(r.heap)
           /\ users' = IF r.thrown.raised THEN users ELSE Append(users, r.result)
    /\ lastCall' = Call("build", NULL, <<>>, <<>>)
    /\ trace' = <<>>
    /\ UNCHANGED <<file, playerVars, singletonVars, observerVars, builder, settersCalled,
                   navigatorVars, paymentVars, shapeVars, employeeVars, compilerVars,
                   callerVars, notifyVars>>

\* new Navigator(strategy): the client code builds its one navigator
newNavigator ==
    /\ file = "Strategy pattern.ts"
    /\ navigator = NULL
    /\ \E strategy \in RouteStrategies :
         /\ navigator' = Navigator_constructor(strategy)
         /\ strategies' = Append(strategies, strategy)
         /\ lastCall' = Call("new Navigator", strategy, <<>>, <<>>)
    /\ trace' = <<>>
    /\ thrown' = NoError
    /\ result' = NULL
    /\ UNCHANGED <<file, allocated, playerVars, singletonVars, observerVars, builderVars, paymentVars,
                   shapeVars, employeeVars, compilerVars, callerVars, notifyVars>>

\* navigator.setRouteStrategy(strategy)
setRouteStrategy ==
    /\ file = "Strategy pattern.ts"
    /\ navigator # NULL
    /\ Len(strategies) < MaxInstalls
    /\ \E strategy \in RouteStrategies :
         LET r == Navigator_setRouteStrategy(navigator, strategy)
         IN  /\ navigator' = r.navigator
             /\ trace' = r.trace
             /\ strategies' = Append(strategies, strategy)
             /\ lastCall' = Call("setRouteStrategy", strategy, <<>>, <<>>)
    /\ thrown' = NoError
    /\ result' = NULL
    /\ UNCHANGED <<file, allocated, playerVars, singletonVars, observerVars, builderVars, paymentVars,
                   shapeVars, employeeVars, compilerVars, callerVars, notifyVars>>

\* navigator.buildRoute(start, end, distance)
buildRoute ==
    /\ file = "Strategy pattern.ts"
    /\ navigator # NULL
    /\ \E route \in Routes, distance \in Distances :
         \E r \in Navigator_buildRoute(navigator, route[1], route[2], distance) :
             /\ navigator' = r.navigator
             /\ trace' = r.trace
             /\ lastCall' = Call("buildRoute", NULL, route, <<distance>>)
    /\ thrown' = NoError
    /\ result' = NULL
    /\ UNCHANGED <<file, allocated, playerVars, singletonVars, observerVars, builderVars,
                   strategies, paymentVars, shapeVars, employeeVars, compilerVars,
                   callerVars, notifyVars>>

\* new PaymentService(processor, validator?, notifiers?): the client code builds its one service
newPaymentService ==
    /\ file = "part_003"
    /\ service = NULL
    /\ \E processor \in Processors, validator \in Validators, notifiers \in NotifierLists :
         /\ service' = PaymentService_constructor(processor, validator, notifiers)
         /\ lastCall' = Call("new PaymentService", processor, <<>>, <<>>)
    /\ trace' = <<>>
    /\ thrown' = NoError
    /\ result' = NULL
    /\ UNCHANGED <<file, allocated, playerVars, singletonVars, observerVars, builderVars,
                   navigatorVars, shapeVars, employeeVars, compilerVars, callerVars,
                   notifyVars>>

\* service.execute(amount)
execute ==
    /\ file = "part_003"
    /\ service # NULL
    /\ \E amount \in Amounts :
         /\ trace' = PaymentService_execute(service, amount)
         /\ lastCall' = Call("execute", NULL, <<>>, <<amount>>)
    /\ thrown' = NoError
    /\ result' = NULL
    /\ UNCHANGED <<file, allocated, playerVars, singletonVars, observerVars, builderVars,
                   navigatorVars, paymentVars, shapeVars, employeeVars, compilerVars,
                   callerVars, notifyVars>>

\* new Circle(radius)
newCircle ==
    /\ file = "open-closed.ts"
    /\ Len(shapes) < MaxShapes
    /\ \E radius \in Radii :
         /\ shapes' = Append(shapes, Circle_constructor(radius))
         /\ lastCall' = Call("new Circle", Obj("Circle", Len(shapes) + 1), <<>>, <<radius>>)
    /\ areas' = Append(areas, <<>>)
    /\ allocated' = allocated + 1
    /\ trace' = <<>>
    /\ thrown' = NoError
    /\ result' = NULL
    /\ UNCHANGED <<file, playerVars, singletonVars, observerVars, builderVars,
                   navigatorVars, paymentVars, employeeVars, compilerVars, callerVars,
                   notifyVars>>

\* new Rectangle(width, height)
newRectangle ==
    /\ file = "open-closed.ts"
    /\ Len(shapes) < MaxShapes
    /\ \E width \in Sides, height \in Sides :
         /\ shapes' = Append(shapes, Rectangle_constructor(width, height))
         /\ lastCall' = Call("new Rectangle", Obj("Rectangle", Len(shapes) + 1), <<>>,
                             <<width, height>>)
    /\ areas' = Append(areas, <<>>)
    /\ allocated' = allocated + 1
    /\ trace' = <<>>
    /\ thrown' = NoError
    /\ result' = NULL
    /\ UNCHANGED <<file, playerVars, singletonVars, observerVars, builderVars,
                   navigatorVars, paymentVars, employeeVars, compilerVars, callerVars,
                   notifyVars>>

\* shape.calculateArea(), called on a shape directly
shape_calculateArea ==
    /\ file = "open-closed.ts"
    /\ \E id \in 1..Len(shapes) :
         /\ Len(areas[id]) < MaxAreaCalls
         /\ LET r == Shape_calculateArea(shapes, id)
            IN  /\ shapes' = r.heap
                /\ result' = r.result
                /\ trace' = r.trace
                /\ areas' = [areas EXCEPT ![id] = Append(@, r.result)]
         /\ lastCall' = Call("shape.calculateArea", Obj(shapes[id].cls, id), <<>>, <<>>)
    /\ thrown' = NoError
    /\ UNCHANGED <<file, allocated, playerVars, singletonVars, observerVars, builderVars,
                   navigatorVars, paymentVars, employeeVars, compilerVars, callerVars,
                   notifyVars>>

\* area.calculateArea(shape)
calculateArea ==
    /\ file = "open-closed.ts"
    /\ \E id \in 1..Len(shapes) :
         /\ Len(areas[id]) < MaxAreaCalls
         /\ LET r == AreaCalculator_calculateArea(shapes, id)
            IN  /\ shapes' = r.heap
                /\ result' = r.result
                /\ trace' = r.trace
                /\ areas' = [areas EXCEPT ![id] = Append(@, r.result)]
         /\ lastCall' = Call("area.calculateArea", Obj(shapes[id].cls, id), <<>>, <<>>)
    /\ thrown' = NoError
    /\ UNCHANGED <<file, allocated, playerVars, singletonVars, observerVars, builderVars,
                   navigatorVars, paymentVars, employeeVars, compilerVars, callerVars,
                   notifyVars>>

\* const emp1 = new Employee(name, age)
newEmployee ==
    /\ file = "encapsulation.ts"
    /\ emp1 = NULL
    /\ \E name \in EmployeeNames, age \in EmployeeAges :
         /\ emp1' = Employee_constructor(name, age)
         /\ written' = [name |-> name, age |-> age]
         /\ lastCall' = Call("new Employee", NULL, <<name>>, <<age>>)
    /\ allocated' = allocated + 1
    /\ trace' = <<>>
    /\ thrown' = NoError
    /\ result' = NULL
    /\ UNCHANGED <<file, playerVars, singletonVars, observerVars, builderVars,
                   navigatorVars, paymentVars, shapeVars, compilerVars, callerVars,
                   notifyVars>>

\* emp1.getName()
emp1_getName ==
    /\ file = "encapsulation.ts"
    /\ emp1 # NULL
    /\ LET r == Employee_getName(emp1)
       IN  /\ emp1' = r.this
           /\ result' = r.result
    /\ lastCall' = Call("emp1.getName", NULL, <<>>, <<>>)
    /\ trace' = <<>>
    /\ thrown' = NoError
    /\ UNCHANGED <<file, allocated, written, playerVars, singletonVars, observerVars,
                   builderVars, navigatorVars, paymentVars, shapeVars, compilerVars,
                   callerVars, notifyVars>>

\* emp1.setName(name)
emp1_setName ==
    /\ file = "encapsulation.ts"
    /\ emp1 # NULL
    /\ \E name \in NewNames :
         /\ LET r == Employee_setName(emp1, name)
            IN  /\ emp1' = r.this
                /\ result' = r.result
         /\ written' = [written EXCEPT !.name = name]
         /\ lastCall' = Call("emp1.setName", NULL, <<name>>, <<>>)
    /\ trace' = <<>>
    /\ thrown' = NoError
    /\ UNCHANGED <<file, allocated, playerVars, singletonVars, observerVars,
                   builderVars, navigatorVars, paymentVars, shapeVars, compilerVars,
                   callerVars, notifyVars>>

\* emp1.getAge()
emp1_getAge ==
    /\ file = "encapsulation.ts"
    /\ emp1 # NULL
    /\ LET r == Employee_getAge(emp1)
       IN  /\ emp1' = r.this
           /\ result' = r.result
    /\ lastCall' = Call("emp1.getAge", NULL, <<>>, <<>>)
    /\ trace' = <<>>
    /\ thrown' = NoError
    /\ UNCHANGED <<file, allocated, written, playerVars, singletonVars, observerVars,
                   builderVars, navigatorVars, paymentVars, shapeVars, compilerVars,
                   callerVars, notifyVars>>

\* emp1.setAge(age)
emp1_setAge ==
    /\ file = "encapsulation.ts"
    /\ emp1 # NULL
    /\ \E age \in NewAges :
         /\ LET r == Employee_setAge(emp1, age)
            IN  /\ emp1' = r.this
                /\ result' = r.result
         /\ written' = [written EXCEPT !.age = age]
         /\ lastCall' = Call("emp1.setAge", NULL, <<>>, <<age>>)
    /\ trace' = <<>>
    /\ thrown' = NoError
    /\ UNCHANGED <<file, allocated, playerVars, singletonVars, observerVars,
                   builderVars, navigatorVars, paymentVars, shapeVars, compilerVars,
                   callerVars, notifyVars>>

\* makeBirdFly(bird) written in the client code: the compiler checks the
\* call; a call with errors is either not run at all or, when the build
\* emits the program all the same, run as it stands.
makeBirdFly ==
    /\ file = "part_001"
    /\ \E bird \in Birds, emitted \in BOOLEAN :
         /\ diagnostics' = makeBirdFly_check(bird)
         /\ IF diagnostics' = <<>> \/ emitted
            THEN LET r == makeBirdFly_run(bird)
                 IN  /\ trace' = r.trace
                     /\ thrown' = r.thrown
            ELSE /\ trace' = <<>>
                 /\ thrown' = NoError
         /\ lastCall' = Call("makeBirdFly", bird, <<>>, <<>>)
    /\ result' = NULL
    /\ UNCHANGED <<file, allocated, playerVars, singletonVars, observerVars, builderVars,
                   navigatorVars, paymentVars, shapeVars, employeeVars, callerVars,
                   notifyVars>>

Next ==
    \/ pressPlay
    \/ pressPause
    \/ pressStop
    \/ getInstance
    \/ runQuery
    \/ registerObserver
    \/ removeObserver
    \/ notifyObservers
    \/ setMeasurements
    \/ createNotification
    \/ send
    \/ newUserBuilder
    \/ setAge
    \/ setPhone
    \/ setAddress
    \/ build
    \/ newNavigator
    \/ setRouteStrategy
    \/ buildRoute
    \/ newPaymentService
    \/ execute
    \/ newCircle
    \/ newRectangle
    \/ shape_calculateArea
    \/ calculateArea
    \/ newEmployee
    \/ emp1_getName
    \/ emp1_setName
    \/ emp1_getAge
    \/ emp1_setAge
    \/ makeBirdFly

Spec == Init /\ [][Next]_vars

-----------------------------------------------------------------------------
(* singleton-pattern.ts with concurrent callers: each caller makes one     *)
(* getInstance() call, and the statements of different callers interleave. *)

ConcurrentInit ==
    /\ file = "singleton-pattern.ts"
    /\ lastCall = NoCall
    /\ trace = <<>>
    /\ thrown = NoError
    /\ result = NULL
    /\ allocated = ClientObjects(file)
    /\ myPlayer = MusicPlayer_constructor
    /\ presses = 0
    /\ instance = DatabaseConnection_instance
    /\ returned = <<>>
    /\ weatherStation = WeatherStation_constructor
    /\ registrations = <<>>
    /\ unregistered = {}
    /\ heap = <<>>
    /\ builder = NULL
    /\ users = <<>>
    /\ settersCalled = {}
    /\ navigator = NULL
    /\ strategies = <<>>
    /\ service = NULL
    /\ shapes = <<>>
    /\ areas = <<>>
    /\ emp1 = NULL
    /\ written = NULL
    /\ diagnostics = <<>>
    /\ callers = [c \in Callers |-> Caller("idle", NULL, NULL)]
    /\ interleaved = FALSE
    /\ atStart = <<>>

\* The state no statement of getInstance() touches.
restVars == <<file, thrown, myPlayer, presses, weatherStation, registrations, unregistered,
              builderVars, navigatorVars, paymentVars, shapeVars, employeeVars, compilerVars,
              notifyVars>>

\* Caller c is inside getInstance().
Inside(c) == callers[c].pc \notin {"idle", "done"}

\* History: caller c steps; the run is interleaved once it does so while
\* another caller is inside getInstance().
Steps(c) ==
    interleaved' = (interleaved \/ \E d \in Callers \ {c} : Inside(d))

\* Caller c enters getInstance() and runs the test of the if statement.
caller_test(c) ==
    /\ callers[c].pc = "idle"
    /\ callers' = [callers EXCEPT ![c].pc =
                       IF DatabaseConnection_getInstance_test(instance) THEN "new" ELSE "return"]
    /\ lastCall' = Call("getInstance", NULL, <<"test">>, <<c>>)
    /\ trace' = <<>>
    /\ result' = NULL
    /\ Steps(c)
    /\ UNCHANGED <<restVars, allocated, instance, returned>>

\* Caller c evaluates new DatabaseConnection().
caller_new(c) ==
    /\ callers[c].pc = "new"
    /\ \E k \in 0..(RandomSteps - 1) :
         LET r == DatabaseConnection_getInstance_new(instance, allocated, k)
         IN  /\ callers' = [callers EXCEPT ![c].pc = "assign", ![c].built = r.obj]
             /\ trace' = r.trace
             /\ allocated' = r.allocated
    /\ lastCall' = Call("getInstance", NULL, <<"new">>, <<c>>)
    /\ result' = NULL
    /\ Steps(c)
    /\ UNCHANGED <<restVars, instance, returned>>

\* Caller c assigns the object it constructed to DatabaseConnection.instance.
caller_assign(c) ==
    /\ callers[c].pc = "assign"
    /\ instance' = DatabaseConnection_getInstance_assign(instance, callers[c].built)
    /\ callers' = [callers EXCEPT ![c].pc = "return"]
    /\ lastCall' = Call("getInstance", NULL, <<"assign">>, <<c>>)
    /\ trace' = <<>>
    /\ result' = NULL
    /\ Steps(c)
    /\ UNCHANGED <<restVars, allocated, returned>>

\* Caller c returns DatabaseConnection.instance.
caller_return(c) ==
    /\ callers[c].pc = "return"
    /\ LET value == DatabaseConnection_getInstance_return(instance)
       IN  /\ callers' = [callers EXCEPT ![c].pc = "done", ![c].result = value]
           /\ result' = value
           /\ returned' = Append(returned, value)
    /\ lastCall' = Call("getInstance", NULL, <<"return">>, <<c>>)
    /\ trace' = <<>>
    /\ Steps(c)
    /\ UNCHANGED <<restVars, allocated, instance>>

ConcurrentNext ==
    \E c \in Callers :
        \/ caller_test(c)
        \/ caller_new(c)
        \/ caller_assign(c)
        \/ caller_return(c)

ConcurrentSpec == ConcurrentInit /\ [][ConcurrentNext]_vars

-----------------------------------------------------------------------------
(* observer-pattern.ts with observers whose update() unsubscribes an       *)
(* observer of the station that is notifying them.                         *)

CallbackInit ==
    /\ Init
    /\ file = "observer-pattern.ts"

\* The state the station's methods do not touch.
stationRest == <<file, allocated, playerVars, singletonVars, registrations, unregistered,
                 builderVars, navigatorVars, paymentVars, shapeVars, employeeVars,
                 compilerVars, callerVars>>

\* weatherStation.registerObserver(observer)
station_registerObserver ==
    /\ Len(weatherStation.observers) < MaxRegistrations
    /\ \E observer \in CallbackObservers :
         LET r == WeatherStation_registerObserver(weatherStation, observer)
         IN  /\ weatherStation' = r.station
             /\ trace' = r.trace
             /\ lastCall' = Call("registerObserver", observer, <<>>, <<>>)
    /\ thrown' = NoError
    /\ result' = NULL
    /\ UNCHANGED <<stationRest, notifyVars>>

\* weatherStation.notifyObservers()
station_notifyObservers ==
    /\ LET r == WeatherStation_notifyObserversOn(weatherStation)
       IN  /\ weatherStation' = r.station
           /\ trace' = r.trace
    /\ atStart' = weatherStation.observers
    /\ lastCall' = Call("notifyObservers", NULL, <<>>, <<>>)
    /\ thrown' = NoError
    /\ result' = NULL
    /\ UNCHANGED stationRest

CallbackNext ==
    \/ station_registerObserver
    \/ station_notifyObservers

CallbackSpec == CallbackInit /\ [][CallbackNext]_vars

-----------------------------------------------------------------------------
(* Properties of state-pattern.ts                                          *)

InStatePattern == file = "state-pattern.ts"

\* The class of the player's current state object.
Current(player) == player.currentState.cls

\* The five transitions: <<operation, class before, class after>>.
Transitions ==
    {<<"pressPlay",  "StoppedState", "PlayingState">>,
     <<"pressPause", "PlayingState", "PausedState">>,
     <<"pressStop",  "PlayingState", "StoppedState">>,
     <<"pressPlay",  "PausedState",  "PlayingState">>,
     <<"pressStop",  "PausedState",  "StoppedState">>}

\* The four illegal presses: <<operation, class of the current state>>.
IllegalPresses ==
    {<<"pressPause", "StoppedState">>, <<"pressStop", "StoppedState">>,
     <<"pressPlay", "PlayingState">>, <<"pressPause", "PausedState">>}

\* C1: every change of the player's current state is one of the five
\* transitions, made by the operation the transition names, and every press of
\* a transition's operation in its source state makes that transition.
C1_OnlyTheFiveTransitions ==
    [][InStatePattern =>
         /\ myPlayer'.currentState # myPlayer.currentState =>
              <<lastCall'.op, Current(myPlayer), Current(myPlayer')>> \in Transitions
         /\ \A t \in Transitions :
              (lastCall'.op = t[1] /\ Current(myPlayer) = t[2]) =>
                  /\ Current(myPlayer') = t[3]
                  /\ myPlayer'.currentState \in
                       {myPlayer.stoppedState, myPlayer.playingState, myPlayer.pausedState}]_vars

\* C1 witness: the player was paused while playing, which takes two of the transitions.
C1_Witness ==
    /\ InStatePattern
    /\ lastCall.op = "pressPause"
    /\ myPlayer.currentState = myPlayer.pausedState

\* C2: an illegal press (pause or stop while Stopped, play while Playing, pause
\* while Paused) leaves the player as it was, throws nothing and prints one line.
C2_IllegalPressIsNoOp ==
    [][(InStatePattern /\ <<lastCall'.op, Current(myPlayer)>> \in IllegalPresses) =>
         /\ myPlayer' = myPlayer
         /\ thrown' = NoError
         /\ Len(trace') = 1
         /\ trace'[1].kind = "log"]_vars

\* C2 witness: pause was pressed while Stopped and rejected.
C2_Witness ==
    /\ InStatePattern
    /\ lastCall.op = "pressPause"
    /\ myPlayer.currentState = myPlayer.stoppedState
    /\ trace = <<console_log(<<"Cannot pause. The player is currently stopped.">>, <<>>)>>

\* C3: a newly constructed player is Stopped; pressPause as its first action
\* leaves it Stopped and pressPlay as its first action moves it to Playing.
C3_StartsStopped ==
    InStatePattern =>
        /\ presses = 0 => myPlayer.currentState = myPlayer.stoppedState
        /\ (presses = 1 /\ lastCall.op = "pressPause") => myPlayer.currentState = myPlayer.stoppedState
        /\ (presses = 1 /\ lastCall.op = "pressPlay") => myPlayer.currentState = myPlayer.playingState

\* C3 witness: pressPlay was the first action on the player, which is now Playing.
C3_Witness ==
    /\ InStatePattern
    /\ presses = 1
    /\ lastCall.op = "pressPlay"
    /\ myPlayer.currentState = myPlayer.playingState

-----------------------------------------------------------------------------
(* Properties of singleton-pattern.ts                                      *)

InSingleton == file = "singleton-pattern.ts"

\* C4: over any number of getInstance() calls the constructor runs at most
\* once, every call returns the one cached instance (same object, same
\* connectionId), and a cached instance is never replaced or reset to null.
C4_OneInstance ==
    /\ [](InSingleton =>
            /\ allocated <= 1
            /\ \A n \in 1..Len(returned) :
                 /\ returned[n] # NULL
                 /\ returned[n] = instance
                 /\ returned[n].id = returned[1].id
                 /\ returned[n].connectionId = returned[1].connectionId)
    /\ [][(InSingleton /\ instance # NULL) => instance' = instance]_vars

\* C4 witness: getInstance() has been called at least twice.
C4_Witness ==
    /\ InSingleton
    /\ Len(returned) >= 2
    /\ lastCall.op = "getInstance"
    /\ instance # NULL

-----------------------------------------------------------------------------
(* Properties of observer-pattern.ts                                       *)

InObserver == file = "observer-pattern.ts"

\* The last call ran a notification (directly or through setMeasurements).
Notified == InObserver /\ lastCall.op \in {"notifyObservers", "setMeasurements"}

\* The update callbacks of a trace, in order.
Updates(tr) == SelectSeq(tr, LAMBDA e : e.kind = "update")

\* The observers whose update a trace called, in call order.
Updated(tr) == [n \in 1..Len(Updates(tr)) |-> Updates(tr)[n].obj]

\* The observers of the registrations not cancelled, in registration order.
RECURSIVE LiveFrom(_, _, _)
LiveFrom(regs, gone, n) ==
    IF n > Len(regs) THEN <<>>
    ELSE (IF n \in gone THEN <<>> ELSE <<regs[n]>>) \o LiveFrom(regs, gone, n + 1)

LiveObservers == LiveFrom(registrations, unregistered, 1)

\* How many elements of seq are x.
Count(seq, x) == Cardinality({n \in 1..Len(seq) : seq[n] = x})

\* seq without its element at position i.
Without(seq, i) == [n \in 1..(Len(seq) - 1) |-> IF n < i THEN seq[n] ELSE seq[n + 1]]

\* C5: a notification calls update on the registered observers in registration
\* order, the removed registrations taken out and the order of the rest kept.
C5_NotifyInRegistrationOrder == Notified => Updated(trace) = LiveObservers

\* C5 witness: three registrations, the first removed, the other two notified in order.
C5_Witness ==
    /\ Notified
    /\ Len(registrations) = 3
    /\ unregistered = {1}
    /\ Updated(trace) = <<registrations[2], registrations[3]>>
    /\ registrations[2] # registrations[3]

\* C6: during setMeasurements(t, h) every update receives exactly (t, h), the
\* pair just stored, not the pair held before the call.
C6_NotifyAfterStore ==
    (InObserver /\ lastCall.op = "setMeasurements") =>
        /\ weatherStation.temperature = lastCall.nums[1]
        /\ weatherStation.humidity = lastCall.nums[2]
        /\ \A n \in 1..Len(Updates(trace)) : Updates(trace)[n].nums = lastCall.nums

\* C6 witness: setMeasurements(28, 68) notified two observers.
C6_Witness ==
    /\ InObserver
    /\ lastCall.op = "setMeasurements"
    /\ lastCall.nums = <<28, 68>>
    /\ Len(Updates(trace)) = 2

\* C7: an observer all of whose registrations were removed gets no update from
\* a notification, and every observer still registered gets one; with phone,
\* web and TV registered and TV removed, setMeasurements notifies phone and web.
C7_RemovedNotNotified ==
    Notified =>
        /\ \A o \in ObserverObjects :
             Count(Updated(trace), o) > 0 <=> Count(LiveObservers, o) > 0
        /\ (/\ registrations = <<phoneDisplay, webDisplay, tvDisplay>>
            /\ unregistered = {3}
            /\ lastCall.op = "setMeasurements")
           => Updated(trace) = <<phoneDisplay, webDisplay>>

\* C7 witness: phone, web and TV registered, TV removed, then setMeasurements.
C7_Witness ==
    /\ InObserver
    /\ registrations = <<phoneDisplay, webDisplay, tvDisplay>>
    /\ unregistered = {3}
    /\ lastCall.op = "setMeasurements"
    /\ Updated(trace) = <<phoneDisplay, webDisplay>>

\* C8: registerObserver always appends, without a duplicate check, so a
\* notification calls an observer once per registration it holds.
C8_NoDuplicateCheck ==
    /\ [][(InObserver /\ lastCall'.op = "registerObserver") =>
            weatherStation'.observers = weatherStation.observers \o <<lastCall'.obj>>]_vars
    /\ [](Notified => \A o \in ObserverObjects :
                         Count(Updated(trace), o) = Count(LiveObservers, o))

\* C8 witness: the phone display is registered twice and setMeasurements calls it twice.
C8_Witness ==
    /\ InObserver
    /\ lastCall.op = "setMeasurements"
    /\ Count(registrations, phoneDisplay) = 2
    /\ unregistered = {}
    /\ Count(Updated(trace), phoneDisplay) = 2

\* C9: removeObserver(o) takes out the first entry identical to o and nothing
\* else, keeping the order of the rest; when o is not in the list the list is
\* unchanged and nothing is printed.
C9_RemoveFirstOccurrence ==
    [][(InObserver /\ lastCall'.op = "removeObserver") =>
         LET o == lastCall'.obj
             before == weatherStation.observers
             at == {i \in 1..Len(before) : before[i] = o}
         IN  /\ weatherStation'.temperature = weatherStation.temperature
             /\ weatherStation'.humidity = weatherStation.humidity
             /\ IF at = {}
                THEN /\ weatherStation'.observers = before
                     /\ trace' = <<>>
                ELSE /\ \E i \in at :
                          /\ \A j \in at : i <= j
                          /\ weatherStation'.observers = Without(before, i)
                     /\ Len(trace') = 1
                     /\ trace'[1] = console_log(<<Observer_getName(o), " unsubscribed">>, <<>>)]_vars

\* C9 witness: an observer registered twice, with another between, lost its first entry.
C9_Witness ==
    /\ InObserver
    /\ lastCall.op = "removeObserver"
    /\ registrations = <<lastCall.obj, webDisplay, lastCall.obj>>
    /\ weatherStation.observers = <<webDisplay, lastCall.obj>>

-----------------------------------------------------------------------------
(* Properties of factory-pattern.ts                                        *)

InFactory == file = "factory-pattern.ts"

\* The display name of the notification type a string spells, whatever the
\* case of its letters; "" when it spells none.
SpelledType(type) ==
    CASE type \in CaseVariants(EMAIL)    -> "Email"
      [] type \in CaseVariants(SMS)      -> "SMS"
      [] type \in CaseVariants(PUSH)     -> "Push"
      [] type \in CaseVariants(WHATSAPP) -> "WhatsApp"
      [] OTHER                           -> ""

\* C10: createNotification(type) matches type against EMAIL, SMS, PUSH and
\* WHATSAPP whatever the case of its letters, and returns a notification
\* whose getType() is Email, SMS, Push or WhatsApp respectively.
C10_CaseInsensitiveMatch ==
    (InFactory /\ lastCall.op = "createNotification" /\ SpelledType(lastCall.text) # "") =>
        /\ thrown = NoError
        /\ result # NULL
        /\ Notification_getType(result) = SpelledType(lastCall.text)

\* C10 witness: createNotification("email") returned an Email notification.
C10_Witness ==
    /\ InFactory
    /\ lastCall.op = "createNotification"
    /\ lastCall.text = <<"e", "m", "a", "i", "l">>
    /\ result # NULL
    /\ Notification_getType(result) = "Email"

\* C11: createNotification(type) for a type that spells none of EMAIL, SMS,
\* PUSH, WHATSAPP in any case throws an error whose message ends with the type
\* exactly as passed, and returns no notification.
C11_UnknownTypeThrows ==
    (InFactory /\ lastCall.op = "createNotification" /\ SpelledType(lastCall.text) = "") =>
        /\ thrown.raised
        /\ thrown.message = <<"Unknown notification type: ">> \o lastCall.text
        /\ result = NULL

\* C11 witness: createNotification("fax") threw, with "fax" in lower case in the message.
C11_Witness ==
    /\ InFactory
    /\ lastCall.op = "createNotification"
    /\ lastCall.text = <<"f", "a", "x">>
    /\ thrown = Error(<<"Unknown notification type: ", "f", "a", "x">>)
    /\ result = NULL

-----------------------------------------------------------------------------
(* Properties of part_002 (builder)                                        *)

InBuilder == file = "part_002"

\* The fields of the client's builder.
Builder == heap[builder.id]

\* A name that is absent, empty or made of whitespace only.
Blank(name) == name = UNDEFINED \/ \A i \in 1..Len(name[1]) : name[1][i] \in Whitespace

Setters == {"setAge", "setPhone", "setAddress"}

\* The four data fields of a User or UserBuilder.
Fields(o) == <<o.name, o.age, o.phone, o.address>>

\* C12: the constructor and the setters never fail, whatever the name; build()
\* throws 'Name is required!' exactly when the name is absent or blank after
\* trimming, and then produces no User.
C12_NameCheckedAtBuild ==
    /\ []((InBuilder /\ lastCall.op \in Setters \cup {"new UserBuilder"}) =>
            /\ thrown = NoError
            /\ result = builder)
    /\ []((InBuilder /\ lastCall.op = "build") =>
            /\ thrown.raised <=> Blank(Builder.name)
            /\ thrown.raised => (thrown = Error(<<"Name is required!">>) /\ result = NULL)
            /\ ~thrown.raised => (result.cls = "User" /\ heap[result.id].cls = "User"))
    /\ [][(InBuilder /\ lastCall'.op = "build" /\ thrown'.raised) =>
            (heap' = heap /\ users' = users /\ allocated' = allocated)]_vars

\* C12 witness: a builder named " " took setAge without failing and then failed at build().
C12_Witness ==
    /\ InBuilder
    /\ lastCall.op = "build"
    /\ Builder.name = Some(<<" ">>)
    /\ Builder.age = Some(28)
    /\ thrown = Error(<<"Name is required!">>)
    /\ users = <<>>

\* C13: a successful build() returns a User whose name, age, phone and address
\* are the builder's at the call; a field whose setter was never called is
\* undefined in it. UserBuilder('Alice').setAge(28).setAddress('123 Main St')
\* builds a User with age 28, that address and no phone.
C13_BuildCopiesFields ==
    (InBuilder /\ lastCall.op = "build" /\ ~thrown.raised) =>
        LET user == heap[result.id]
        IN  /\ user.cls = "User"
            /\ Fields(user) = Fields(Builder)
            /\ "setAge" \notin settersCalled => user.age = UNDEFINED
            /\ "setPhone" \notin settersCalled => user.phone = UNDEFINED
            /\ "setAddress" \notin settersCalled => user.address = UNDEFINED
            /\ (/\ Builder.name = Some(<<"A", "l", "i", "c", "e">>)
                /\ settersCalled = {"setAge", "setAddress"}
                /\ Builder.age = Some(28))
               => Fields(user) = <<Some(<<"A", "l", "i", "c", "e">>), Some(28), UNDEFINED,
                                   Some("123 Main St")>>

\* C13 witness: UserBuilder('Alice').setAge(28).setAddress('123 Main St').build()
C13_Witness ==
    /\ InBuilder
    /\ lastCall.op = "build"
    /\ ~thrown.raised
    /\ settersCalled = {"setAge", "setAddress"}
    /\ Fields(heap[result.id]) = <<Some(<<"A", "l", "i", "c", "e">>), Some(28), UNDEFINED,
                                   Some("123 Main St")>>

\* C14: each setter assigns its own field of the builder and nothing else (not
\* the name, not the other two fields, no other object) and returns the builder
\* it was called on.
C14_SettersSetOneField ==
    [][(InBuilder /\ lastCall'.op \in Setters) =>
         /\ lastCall'.op = "setAge" =>
              heap' = [heap EXCEPT ![builder.id].age = Some(lastCall'.nums[1])]
         /\ lastCall'.op = "setPhone" =>
              heap' = [heap EXCEPT ![builder.id].phone = Some(lastCall'.text[1])]
         /\ lastCall'.op = "setAddress" =>
              heap' = [heap EXCEPT ![builder.id].address = Some(lastCall'.text[1])]
         /\ result' = builder
         /\ builder' = builder]_vars

\* C14 witness: setPhone was chained after setAge(35); the age is still 35 and no address is set.
C14_Witness ==
    /\ InBuilder
    /\ lastCall.op = "setPhone"
    /\ settersCalled = {"setAge", "setPhone"}
    /\ Builder.age = Some(35)
    /\ Builder.phone = Some("555-0100")
    /\ Builder.address = UNDEFINED
    /\ result = builder

\* C15: a User that build() returned never changes: no later setter or build
\* call on the builder changes its name, age, phone or address.
C15_UserImmutable ==
    [][InBuilder =>
         \A n \in 1..Len(users) :
             /\ users'[n] = users[n]
             /\ heap'[users[n].id] = heap[users[n].id]]_vars

\* C15 witness: after a User was built with age 28 the builder was set to age
\* 35 and built again; the first User still has age 28.
C15_Witness ==
    /\ InBuilder
    /\ Len(users) = 2
    /\ heap[users[1].id].age = Some(28)
    /\ heap[users[2].id].age = Some(35)
    /\ Builder.age = Some(35)

-----------------------------------------------------------------------------
(* singleton-pattern.ts, creation *)

\* The lines the constructor of DatabaseConnection printed in the last operation.
CreatedLines ==
    SelectSeq(trace, LAMBDA e : e.kind = "log" /\ e.text = <<"Database Instance Created. ID: ">>)

\* C18: the instance is created lazily: until the first getInstance() call the
\* static field is null and the constructor has not run; the first call runs
\* the constructor once and caches the object it built, and only a
\* getInstance() call makes the field non-null.
C18_LazyCreation ==
    /\ [](InSingleton =>
            /\ Len(returned) = 0 =>
                 /\ instance = NULL
                 /\ allocated = 0
                 /\ CreatedLines = <<>>
            /\ Len(returned) >= 1 =>
                 /\ instance # NULL
                 /\ allocated = 1
            /\ (Len(returned) = 1 /\ lastCall.op = "getInstance") =>
                 /\ CreatedLines = <<console_log(<<"Database Instance Created. ID: ">>,
                                                 <<instance.connectionId>>)>>
                 /\ result = instance)
    /\ [][(InSingleton /\ instance = NULL /\ instance' # NULL)
              => (lastCall'.op = "getInstance" /\ allocated' = allocated + 1)]_vars

\* The first getInstance() call has just constructed the instance.
C18_Witness ==
    /\ InSingleton
    /\ Len(returned) = 1
    /\ lastCall.op = "getInstance"
    /\ instance # NULL
    /\ allocated = 1
    /\ Len(CreatedLines) = 1

-----------------------------------------------------------------------------
(* Strategy pattern.ts *)

InStrategy == file = "Strategy pattern.ts"

\* The calls of the given kind that the last operation made on a strategy.
StrategyCalls(kind) == SelectSeq(trace, LAMBDA e : e.kind = kind)

\* The average speed the specification states for each strategy class, in km/h.
StatedSpeed(cls) ==
    CASE cls = "CarRouteStrategy"     -> 60
      [] cls = "BikeRouteStrategy"    -> 15
      [] cls = "WalkingRouteStrategy" -> 5

\* The digits of the time that buildRoute printed.
ShownTime == trace[Len(trace)].nums

\* C16: the time a strategy returns to buildRoute is distance / speed with
\* speed 60 (car), 15 (bike), 5 (walking); a navigator with the car strategy
\* reports 0.5 hours for a distance of 30, and after setRouteStrategy(bike)
\* the same route reports 2.0 hours.
C16_EstimatedTime ==
    (InStrategy /\ lastCall.op = "buildRoute") =>
        LET call == StrategyCalls("getEstimatedTime")[1]
            distance == call.nums[1]
        IN  /\ distance = lastCall.nums[1]
            /\ call.nums[2] * StatedSpeed(call.obj.cls) = distance * call.nums[3]
            /\ (navigator.routeStrategy.cls = "CarRouteStrategy" /\ distance = 30)
                   => ShownTime = <<0, 5>>
            /\ (navigator.routeStrategy.cls = "BikeRouteStrategy" /\ distance = 30)
                   => ShownTime = <<2, 0>>

\* The bike strategy, installed by setRouteStrategy on a navigator built with
\* the car strategy, has just estimated the route Home -> Office of 30 km.
C16_Witness ==
    /\ InStrategy
    /\ lastCall.op = "buildRoute"
    /\ lastCall.text = <<"Home", "Office">>
    /\ lastCall.nums = <<30>>
    /\ strategies = <<carRouteStrategy, bikeRouteStrategy>>
    /\ navigator.routeStrategy = bikeRouteStrategy
    /\ ShownTime = <<2, 0>>

\* C17: the navigator holds one strategy at every moment, the one most
\* recently installed by the constructor or setRouteStrategy; buildRoute makes
\* one calculateRoute and one getEstimatedTime call, both on that strategy,
\* and leaves the navigator's strategy as it was.
C17_DelegatesToInstalled ==
    /\ [](InStrategy /\ navigator # NULL =>
            /\ navigator.routeStrategy \in RouteStrategies
            /\ navigator.routeStrategy = strategies[Len(strategies)])
    /\ [](InStrategy /\ lastCall.op = "buildRoute" =>
            /\ Len(StrategyCalls("calculateRoute")) = 1
            /\ Len(StrategyCalls("getEstimatedTime")) = 1
            /\ StrategyCalls("calculateRoute")[1].obj = strategies[Len(strategies)]
            /\ StrategyCalls("getEstimatedTime")[1].obj = strategies[Len(strategies)])
    /\ [][InStrategy /\ lastCall'.op = "buildRoute" => navigator' = navigator]_vars

\* A route has just been built after the strategy was replaced twice, the
\* last time by a strategy of the class the navigator was built with.
C17_Witness ==
    /\ InStrategy
    /\ lastCall.op = "buildRoute"
    /\ strategies = <<carRouteStrategy, walkingRouteStrategy, otherCarRouteStrategy>>
    /\ StrategyCalls("calculateRoute")[1].obj = otherCarRouteStrategy

-----------------------------------------------------------------------------
(* part_003: composition, PaymentService *)

InPayment == file = "part_003"

\* The calls of the given kinds that the last execute() made on the parts
\* of the service, in the order they were made.
PartCalls(kinds) == SelectSeq(trace, LAMBDA e : e.kind \in kinds)

\* The last execute() called the validator, which returned the given value.
Validated(value) ==
    /\ service.validator # UNDEFINED
    /\ Len(PartCalls({"validate"})) = 1
    /\ PartCalls({"validate"})[1].text = <<value>>

\* C19: when a validator is present and its validate(amount) returns false,
\* execute(amount) aborts: it prints the failure line and calls neither
\* process nor any notify; with no validator nothing is validated and the
\* payment is processed whatever the amount.
C19_FailedValidationAborts ==
    (InPayment /\ lastCall.op = "execute") =>
        /\ Validated("false") =>
             /\ PartCalls({"process", "notify"}) = <<>>
             /\ trace[Len(trace)] = console_log(<<"Payment failed validation">>, <<>>)
        /\ service.validator = UNDEFINED =>
             /\ PartCalls({"validate"}) = <<>>
             /\ PartCalls({"process"})
                  = <<Event("process", service.processor, <<>>, lastCall.nums)>>

\* A service with a validator and a notifier has just rejected an amount
\* above the validator's limit.
C19_Witness ==
    /\ InPayment
    /\ lastCall.op = "execute"
    /\ lastCall.nums = <<10001>>
    /\ service.notifiers # <<>>
    /\ Validated("false")

\* C20: when the validator returned true or there is none, execute(amount)
\* calls process(amount) once on the processor and then notify(amount) once
\* per notifier given, in the order given; these are all the process and
\* notify calls, so none precedes the processing.
C20_ProcessThenNotifyInOrder ==
    (InPayment /\ lastCall.op = "execute"
       /\ (service.validator = UNDEFINED \/ Validated("true"))) =>
        LET calls == PartCalls({"process", "notify"})
        IN  /\ Len(calls) = 1 + Len(service.notifiers)
            /\ calls[1] = Event("process", service.processor, <<>>, lastCall.nums)
            /\ \A i \in 1..Len(service.notifiers) :
                 calls[i + 1] = Event("notify", service.notifiers[i], <<>>, lastCall.nums)

\* A validated payment of the client's amount has just been processed by a
\* service with two different notifiers.
C20_Witness ==
    /\ InPayment
    /\ lastCall.op = "execute"
    /\ lastCall.nums = <<5000>>
    /\ Validated("true")
    /\ service.notifiers = <<emailNotifier, smsNotifier>>
    /\ Len(PartCalls({"notify"})) = 2

-----------------------------------------------------------------------------
(* open-closed.ts *)

InOpenClosed == file = "open-closed.ts"

AreaOps == {"shape.calculateArea", "area.calculateArea"}

\* The calls the last operation made on a shape's own calculateArea().
ShapeCalls == SelectSeq(trace, LAMBDA e : e.kind = "calculateArea")

\* The shape the last operation was called with.
Shape == shapes[lastCall.obj.id]

\* C21: AreaCalculator.calculateArea(shape) makes one call of the shape's own
\* calculateArea() and returns the value that call returned, for a circle and
\* for a rectangle alike; for Rectangle(w, h) the value is w * h, and for
\* Rectangle(3, 4) it is 12.
C21_CalculatorDelegates ==
    (InOpenClosed /\ lastCall.op = "area.calculateArea") =>
        /\ Len(ShapeCalls) = 1
        /\ ShapeCalls[1].obj = lastCall.obj
        /\ result = [pi |-> ShapeCalls[1].nums[1], plain |-> ShapeCalls[1].nums[2]]
        /\ Shape.cls = "Rectangle" => result = Num(Shape.width * Shape.height)
        /\ (Shape.cls = "Rectangle" /\ Shape.width = 3 /\ Shape.height = 4)
               => result.plain = 12

\* The calculator has just returned the area of a Rectangle(3, 4).
C21_Witness ==
    /\ InOpenClosed
    /\ lastCall.op = "area.calculateArea"
    /\ Shape = Rectangle_constructor(3, 4)
    /\ result = Num(12)

\* C22: every calculateArea() call on a shape returns the value the first call
\* on that shape returned, and no call changes the dimensions of any shape.
C22_AreaRepeatable ==
    /\ [](InOpenClosed =>
            \A id \in 1..Len(shapes) :
                \A n \in 1..Len(areas[id]) : areas[id][n] = areas[id][1])
    /\ [][(InOpenClosed /\ lastCall'.op \in AreaOps) => shapes' = shapes]_vars

\* A rectangle that is not a square has returned its area twice, next to a circle.
C22_Witness ==
    /\ InOpenClosed
    /\ lastCall.op \in AreaOps
    /\ Shape.cls = "Rectangle"
    /\ Shape.width # Shape.height
    /\ Len(areas[lastCall.obj.id]) = 2
    /\ \E id \in 1..Len(shapes) : shapes[id].cls = "Circle"

-----------------------------------------------------------------------------
(* encapsulation.ts *)

InEncapsulation == file = "encapsulation.ts"

\* C23: getName() returns the name last given to setName (or to the
\* constructor) and getAge() the age last given to setAge (or to the
\* constructor); setName leaves the age as it was, setAge leaves the name as
\* it was, and the getters leave the employee as it was.
C23_AccessorsRoundTrip ==
    /\ [](InEncapsulation =>
            /\ lastCall.op = "emp1.getName" => result = written.name
            /\ lastCall.op = "emp1.getAge" => result = written.age)
    /\ [][(InEncapsulation /\ lastCall'.op = "emp1.setName") => emp1'.age = emp1.age]_vars
    /\ [][(InEncapsulation /\ lastCall'.op = "emp1.setAge") => emp1'.name = emp1.name]_vars
    /\ [][(InEncapsulation /\ lastCall'.op \in {"emp1.getName", "emp1.getAge"})
              => emp1' = emp1]_vars

\* getAge() has just returned an age given to setAge, after the name was
\* changed by setName.
C23_Witness ==
    /\ InEncapsulation
    /\ lastCall.op = "emp1.getAge"
    /\ result = 36
    /\ written = [name |-> "Jane", age |-> 36]

-----------------------------------------------------------------------------
(* part_001: Liskov substitution *)

InLiskov == file = "part_001"

\* The classes that descend from FlyingBird, by their `extends` clauses.
FlightCapable == {"FlyingBird", "Sparrow"}

\* The fly() bodies the last call ran.
Flights == SelectSeq(trace, LAMBDA e : e.kind = "fly")

\* C24: the compiler accepts the call makeBirdFly(bird) exactly for a bird of
\* a flight-capable class, so the call with a Penguin is an error; no fly()
\* body runs on a bird that is not flight-capable, whether or not the
\* rejected program is run, and an accepted call runs fly() once on its bird.
C24_OnlyFlyingBirdsFly ==
    (InLiskov /\ lastCall.op = "makeBirdFly") =>
        /\ lastCall.obj.cls = "Penguin" => diagnostics # <<>>
        /\ diagnostics = <<>> <=> lastCall.obj.cls \in FlightCapable
        /\ \A n \in 1..Len(Flights) : Flights[n].obj.cls \in FlightCapable
        /\ diagnostics = <<>> =>
             /\ ~thrown.raised
             /\ Len(Flights) = 1
             /\ Flights[1].obj = lastCall.obj

\* The call makeBirdFly(penguin) has just been rejected by the compiler.
C24_Witness ==
    /\ InLiskov
    /\ lastCall.op = "makeBirdFly"
    /\ lastCall.obj = penguin
    /\ diagnostics # <<>>
    /\ diagnostics[1].argument = "Penguin"
    /\ Flights = <<>>

-----------------------------------------------------------------------------
(* observer-pattern.ts, the steps of setMeasurements *)

\* The positions in the trace of the last call of the events that satisfy Test.
Positions(Test(_)) == {n \in 1..Len(trace) : Test(trace[n])}

IsStore(e) == e.kind = "store"

IsSummary(e) == e.kind = "log" /\ e.text = <<"New weather data: ", "C, ", "%">>

IsNotification(e) ==
    \/ e.kind = "update"
    \/ e.kind = "log" /\ e.text = <<"Notifying all observers...">>

\* Every position of the first set comes before every position of the second.
Precede(first, second) == \A a \in first, b \in second : a < b

\* C25, as stated: setMeasurements updates both stored fields, then prints
\* the summary line, then runs notifyObservers.
C25_StoreThenPrintThenNotify ==
    (InObserver /\ lastCall.op = "setMeasurements") =>
        /\ Cardinality(Positions(IsStore)) = 2
        /\ Cardinality(Positions(IsSummary)) = 1
        /\ Precede(Positions(IsStore), Positions(IsSummary))
        /\ Precede(Positions(IsSummary), Positions(IsNotification))

\* C25, amended: setMeasurements(temperature, humidity) prints the summary
\* line first, then stores the temperature and the humidity, and then runs
\* notifyObservers, which starts after both stores.
C25_PrintThenStoreThenNotify ==
    (InObserver /\ lastCall.op = "setMeasurements") =>
        /\ Len(trace) >= 4
        /\ trace[1] = console_log(<<"New weather data: ", "C, ", "%">>, lastCall.nums)
        /\ trace[2] = Event("store", NULL, <<"temperature">>, <<lastCall.nums[1]>>)
        /\ trace[3] = Event("store", NULL, <<"humidity">>, <<lastCall.nums[2]>>)
        /\ Positions(IsStore) = {2, 3}
        /\ Positions(IsSummary) = {1}
        /\ 4 \in Positions(IsNotification)
        /\ Precede({1, 2, 3}, Positions(IsNotification))

\* setMeasurements(25, 65) has just run on a station with three observers.
C25_Witness ==
    /\ InObserver
    /\ lastCall.op = "setMeasurements"
    /\ lastCall.nums = <<25, 65>>
    /\ Len(weatherStation.observers) = 3
    /\ Cardinality(Positions(IsNotification)) = 4

-----------------------------------------------------------------------------
(* state-pattern.ts, the state instances and the buttons *)

\* The three state instances the player holds.
StateInstances(player) == {player.stoppedState, player.playingState, player.pausedState}

\* C26: after any sequence of presses the current state is one of the three
\* state instances the player holds, which are three different objects, one
\* of each state class, and no press replaces or changes any of them.
C26_CurrentIsOneOfThree ==
    /\ [](InStatePattern =>
            /\ myPlayer.currentState \in StateInstances(myPlayer)
            /\ Cardinality(StateInstances(myPlayer)) = 3
            /\ myPlayer.stoppedState.cls = "StoppedState"
            /\ myPlayer.playingState.cls = "PlayingState"
            /\ myPlayer.pausedState.cls = "PausedState")
    /\ [][InStatePattern =>
            /\ myPlayer'.stoppedState = myPlayer.stoppedState
            /\ myPlayer'.playingState = myPlayer.playingState
            /\ myPlayer'.pausedState = myPlayer.pausedState]_vars

\* The player has been resumed from Paused: its current state is again the
\* playing instance.
C26_Witness ==
    /\ InStatePattern
    /\ presses = MaxPresses
    /\ lastCall.op = "pressPlay"
    /\ trace = <<console_log(<<"Resuming music...">>, <<>>)>>
    /\ myPlayer.currentState = myPlayer.playingState

\* C27: from every state pressStop leaves the player Stopped and pressPlay
\* leaves it Playing, so a second press of the same of these two buttons
\* changes nothing; the player becomes Paused only by pressPause while Playing.
C27_StopAndPlayIdempotent ==
    [][InStatePattern =>
         /\ lastCall'.op = "pressStop" => Current(myPlayer') = "StoppedState"
         /\ lastCall'.op = "pressPlay" => Current(myPlayer') = "PlayingState"
         /\ (lastCall'.op = lastCall.op /\ lastCall.op \in {"pressStop", "pressPlay"})
                => myPlayer' = myPlayer
         /\ (Current(myPlayer) # "PausedState" /\ Current(myPlayer') = "PausedState")
                => (lastCall'.op = "pressPause" /\ Current(myPlayer) = "PlayingState")]_vars

\* Play has been pressed while the player was already playing.
C27_Witness ==
    /\ InStatePattern
    /\ presses = MaxPresses
    /\ lastCall.op = "pressPlay"
    /\ trace = <<console_log(<<"Already playing music.">>, <<>>)>>
    /\ myPlayer.currentState = myPlayer.playingState

-----------------------------------------------------------------------------
(* singleton-pattern.ts, concurrent first calls *)

\* The callers that found the cached instance null and have gone past the
\* construction.
Constructors == {c \in DOMAIN callers : callers[c].built # NULL}

\* The callers whose getInstance() call has returned.
Finished == {c \in DOMAIN callers : callers[c].pc = "done"}

\* C28: nothing guards the first-call creation against concurrent callers:
\* every caller that tested the cached instance while it was null constructs
\* a DatabaseConnection of its own, so callers that all make the test before
\* any of them assigns create as many instances as there are callers; when
\* the calls do not interleave, exactly one instance is created and every
\* call returns it.
C28_UnguardedFirstCall ==
    InSingleton =>
        /\ \A c \in DOMAIN callers :
             callers[c].pc = "assign" => callers[c].built # NULL
        /\ \A c, d \in Constructors : c # d => callers[c].built.id # callers[d].built.id
        /\ allocated = Cardinality(Constructors)
        /\ (~interleaved /\ Finished # {}) =>
               /\ allocated = 1
               /\ \A c \in Finished : callers[c].result = instance

\* Two callers made the test before either assigned; both calls have
\* returned, and two instances with different connectionIds exist.
C28_Witness ==
    /\ InSingleton
    /\ interleaved
    /\ Finished = {1, 2}
    /\ allocated = 2
    /\ Cardinality(Constructors) = 2
    /\ callers[1].built.connectionId # callers[2].built.connectionId

-----------------------------------------------------------------------------
(* observer-pattern.ts, unsubscribing during a notification *)

\* C29, as stated: one notifyObservers run calls update once for every entry
\* of the observer list as it was when the run started, in that order, also
\* when an update() unsubscribes an observer during the run; in particular no
\* observer that is still registered after the run was left out.
C29_NoObserverSkipped ==
    (InObserver /\ lastCall.op = "notifyObservers") =>
        /\ Updated(trace) = atStart
        /\ \A n \in 1..Len(weatherStation.observers) :
             \E k \in 1..Len(Updates(trace)) :
                 Updates(trace)[k].obj = weatherStation.observers[n]

====
